---- MODULE Spec2Model ----
(***************************************************************************)
(* The sensing / streaming / detection orchestration of the BioSort       *)
(* operator page (HomePage, src/unnamed/part_002).                         *)
(*                                                                         *)
(* The page is a React function component.  Every handler runs to          *)
(* completion on the single JavaScript thread; when it has set state, the  *)
(* component re-renders and the effects whose dependencies changed run     *)
(* again (cleanup first).  One action below is one such task: the handler  *)
(* followed by the render it causes (Render).  A callback created in an    *)
(* earlier render (a timer, the continuation of an await) keeps the state  *)
(* values of that render: they are stored with the pending callback as its *)
(* closure (fields cs, cd, cc, cip).                                       *)
(*                                                                         *)
(* Time is counted in milliseconds and advances in steps of limits.step    *)
(* (TICK, or SHORT_DELAY where the tenth of a second matters).  The        *)
(* program only compares Date.now() with stored timestamps, so a timestamp *)
(* is kept as the time elapsed since it was taken, saturating above the    *)
(* largest value the program compares it with.  Callbacks due at a clock   *)
(* instant run at that instant, in any order; the operator, the camera,    *)
(* the controller and the inference service act between two instants.      *)
(*                                                                         *)
(* Spec is the whole page.  SpecGate, SpecLoop, SpecProximity,             *)
(* SpecWatchdog, SpecDebounce, SpecBins, SpecTeardown, SpecOverlay,        *)
(* SpecCamera, SpecCooldown, SpecLog, SpecReconnect, SpecTimeout and       *)
(* SpecManual are the page in one environment each (what the operator      *)
(* does, what the devices answer), with runs of a stated length (limits):  *)
(* every behaviour of theirs is a behaviour of the page.  SpecClassifier applies the three *)
(* classifications of the page to one class label; SpecClient follows one  *)
(* remote call (fetchESP32, the inference request) through its requests;   *)
(* SpecFrame follows the predictions of one inference answer from the      *)
(* service wrapper to the command they lead to; SpecProxy follows one      *)
(* request of the reverse proxy (fetchWithTimeoutAndRetry, part_006)       *)
(* through its attempts; SpecMqtt is the MQTTClient object of part_002     *)
(* with its callers and its broker.                                        *)
(***************************************************************************)
EXTENDS Integers, Sequences, FiniteSets, TLC

\* ------------------------------------------------------------- constants
DETECTION_COOLDOWN == 10000
SENSOR_COOLDOWN == 60000
STREAM_TIMEOUT == 30000
DETECTION_INTERVAL == 1000
SENSOR_INTERVAL == 1000
BIN_INTERVAL == 2000
COOLDOWN_INTERVAL == 1000
DURATION_INTERVAL == 1000
GRACE_DELAY == 5000
RECONNECT_DELAY == 3000
POST_TRIGGER_DELAY == 2000
SHORT_DELAY == 100
HISTORY_KEEP == 9
\* the retries of the reverse proxy (part_006)
MAX_RETRIES == 2
detectionDisplayTime == 3000
JANITOR_INTERVAL == 1000
\* confidences are counted in hundredths
CONFIDENCE_THRESHOLD == 20
confidenceThreshold == 60
NEW_LINES == 3
OLD_LINES == 7

\* The clock step: the common period of the one-second intervals.
TICK == DETECTION_INTERVAL

\* ---------------------------------------------------------------- bounds
\* monitorSensor invocations awaiting a fetch at the same time
MaxPolls == 1
\* detectFromCurrentImage invocations awaiting at the same time
MaxDetects == 2
\* standalone fetchBinCapacity calls awaiting at the same time
MaxBinFetches == 1
\* pending setTimeout callbacks an operator or device event may add to
MaxPending == 2
\* clock steps and operator inputs of a run of Spec, and the clock steps a request
\* to the controller may stay unanswered
MaxClock == 3
MaxPresses == 3
MaxPatience == 2
\* ... of a run of SpecGate: two cooldown windows, two sessions
GateClock == 12
GatePresses == 4
\* ... of a run of SpecProximity
ProximityClock == 3
ProximityPresses == 3
ProximityPatience == 1
\* ... of a run of SpecDebounce
DebounceClock == 8
DebouncePresses == 2
\* ... of a run of SpecBins
BinsClock == 2
BinsPresses == 3
\* ... of a run of SpecWatchdog: one session to its forced stop and beyond
WatchdogClock == 33
WatchdogPresses == 2
WatchdogPatience == 2
\* ... of a run of SpecTeardown: a session with one actuation, then the stop
TeardownClock == 3
TeardownPresses == 3
TeardownPatience == 1
\* words in a class label classified under SpecClassifier
MaxWords == 2
\* remote calls made one after the other in a run of SpecClient
MaxCalls == 2
\* predictions in one inference answer handled under SpecFrame
MaxPredictions == 4
\* clock steps, button presses and predictions of an answer in a run of SpecLog
LogClock == 3
LogPresses == 3
LogPredictions == 4
\* clock steps and button presses in a run of SpecReconnect
ReconnectClock == 4
ReconnectPresses == 4
\* clock steps, button presses and unanswered clock steps in a run of SpecTimeout
TimeoutClock == 31
TimeoutPresses == 2
TimeoutPatience == 1
\* clock steps and button presses in a run of SpecManual
ManualClock == 3
ManualPresses == 4
\* connections, pending subscribe requests, publications and message
\* callbacks in a run of SpecMqtt
MaxConnects == 2
MaxAcks == 2
MaxPublishes == 1
MaxCallbacks == 2
\* requests made one after the other in a run of SpecProxy
MaxProxyCalls == 2
\* clock steps and button presses in a run of SpecCooldown
CooldownClock == 12
CooldownPresses == 3
\* clock steps and button presses in a run of SpecCamera
CameraClock == 2
CameraPresses == 3
\* clock steps and button presses in a run of SpecLoop
LoopClock == 5
LoopPresses == 3
\* ... of a run of SpecOverlay, in steps of SHORT_DELAY: three detections and the
\* display time of the first
OverlayClock == 45
OverlayPresses == 3

VARIABLES
    \* React state (useState)
    sensorMonitoring, isStreaming, streamActive, streamStartAge, isDetecting,
    isInCooldown, cooldownRemaining, cameraIP, detectionHistory, binCapacity,
    ultrasonicData, lastCommandSuccess, activeDetections, wasteStats,
    \* refs (useRef)
    detectionCooldownAge, lastStreamStartAge, streamTimeoutRef, imageRef,
    intervals, sensorClosure,
    \* the event loop: pending timeouts and suspended async calls
    timeouts, polls, detects, binFetches, controls, diagnostics,
    \* the class label of a prediction and what the page makes of it
    classified,
    \* the remote call being made (fetchESP32, or the inference request)
    request,
    \* the predictions of one inference answer and what the page does with them
    frame,
    \* the reverse proxy's request to the controller (fetchWithTimeoutAndRetry)
    proxy,
    \* the MQTT client (MQTTClient)
    mqtt,
    \* the extent of the runs explored (limits) and what is observed of a run (obs)
    limits, obs

vars == <<sensorMonitoring, isStreaming, streamActive, streamStartAge, isDetecting,
          isInCooldown, cooldownRemaining, cameraIP, detectionHistory, binCapacity,
          ultrasonicData, lastCommandSuccess, activeDetections, wasteStats,
          detectionCooldownAge, lastStreamStartAge, streamTimeoutRef, imageRef,
          intervals, sensorClosure,
          timeouts, polls, detects, binFetches, controls, diagnostics,
          classified, request, frame, proxy, mqtt, limits, obs>>

\* ---------------------------------------------------------------- helpers
Min(a, b) == IF a < b THEN a ELSE b

Max(a, b) == IF a > b THEN a ELSE b

\* Remove element i of a sequence.
RemoveAt(q, i) == SubSeq(q, 1, i - 1) \o SubSeq(q, i + 1, Len(q))

\* A timestamp that is UNSET was never taken (0 in the source).
UNSET == -1

\* Elapsed time a after d more milliseconds, saturating at cap.
Elapse(a, d, cap) == IF a = UNSET THEN UNSET ELSE Min(a + d, cap)

CooldownCap == DETECTION_COOLDOWN

SensorCap == SENSOR_COOLDOWN + TICK

StreamCap == STREAM_TIMEOUT + TICK + TICK + TICK

DisplayCap == detectionDisplayTime + TICK + TICK

\* The whole program state as one record, so that a handler is a function
\* from state to state and handlers compose as the code calls them.
Cur ==
    [sensorMonitoring |-> sensorMonitoring, isStreaming |-> isStreaming,
     streamActive |-> streamActive, streamStartAge |-> streamStartAge,
     isDetecting |-> isDetecting, isInCooldown |-> isInCooldown,
     cooldownRemaining |-> cooldownRemaining, cameraIP |-> cameraIP,
     detectionHistory |-> detectionHistory, binCapacity |-> binCapacity,
     ultrasonicData |-> ultrasonicData, lastCommandSuccess |-> lastCommandSuccess,
     activeDetections |-> activeDetections, wasteStats |-> wasteStats,
     detectionCooldownAge |-> detectionCooldownAge,
     lastStreamStartAge |-> lastStreamStartAge,
     streamTimeoutRef |-> streamTimeoutRef, imageRef |-> imageRef,
     intervals |-> intervals, sensorClosure |-> sensorClosure,
     timeouts |-> timeouts, polls |-> polls, detects |-> detects,
     binFetches |-> binFetches, controls |-> controls, diagnostics |-> diagnostics,
     classified |-> classified, request |-> request, frame |-> frame,
     proxy |-> proxy, mqtt |-> mqtt,
     limits |-> limits, obs |-> obs]

Install(s) ==
    /\ sensorMonitoring' = s.sensorMonitoring
    /\ isStreaming' = s.isStreaming
    /\ streamActive' = s.streamActive
    /\ streamStartAge' = s.streamStartAge
    /\ isDetecting' = s.isDetecting
    /\ isInCooldown' = s.isInCooldown
    /\ cooldownRemaining' = s.cooldownRemaining
    /\ cameraIP' = s.cameraIP
    /\ detectionHistory' = s.detectionHistory
    /\ binCapacity' = s.binCapacity
    /\ ultrasonicData' = s.ultrasonicData
    /\ lastCommandSuccess' = s.lastCommandSuccess
    /\ activeDetections' = s.activeDetections
    /\ wasteStats' = s.wasteStats
    /\ detectionCooldownAge' = s.detectionCooldownAge
    /\ lastStreamStartAge' = s.lastStreamStartAge
    /\ streamTimeoutRef' = s.streamTimeoutRef
    /\ imageRef' = s.imageRef
    /\ intervals' = s.intervals
    /\ sensorClosure' = s.sensorClosure
    /\ timeouts' = s.timeouts
    /\ polls' = s.polls
    /\ detects' = s.detects
    /\ binFetches' = s.binFetches
    /\ controls' = s.controls
    /\ diagnostics' = s.diagnostics
    /\ classified' = s.classified
    /\ request' = s.request
    /\ frame' = s.frame
    /\ proxy' = s.proxy
    /\ mqtt' = s.mqtt
    /\ limits' = s.limits
    /\ obs' = s.obs

\* ------------------------------------------------------- small vocabulary
OFF == -1

NoImage == [mounted |-> FALSE, src |-> "none", complete |-> FALSE,
            onerror |-> FALSE, ecs |-> FALSE, ecip |-> FALSE]

\* The values captured by the functions of one render.
Closure(s) ==
    [isStreaming |-> s.isStreaming, isDetecting |-> s.isDetecting,
     isInCooldown |-> s.isInCooldown, cameraIP |-> s.cameraIP]

\* A pending setTimeout callback: its kind, the time left, the handle a ref keeps
\* (id, 0 when no ref keeps it), the closure values it reads, and whether the
\* session it was scheduled in has been stopped since (stale, observation only).
Timer(kind, left, id, c) ==
    [kind |-> kind, left |-> left, id |-> id, cs |-> c.isStreaming,
     cd |-> c.isDetecting, cip |-> c.cameraIP, stale |-> FALSE]

TimerIds(q) == {q[i].id : i \in 1..Len(q)}

NewTimerId(q) == CHOOSE n \in 1..(Len(q) + 1) : n \notin TimerIds(q)

\* a log that takes its entries at the end, oldest first
pushLast(s, msg) ==
    IF s.limits.history
    THEN [s EXCEPT !.detectionHistory =
                       SubSeq(@, 1, Min(Len(@), HISTORY_KEEP)) \o <<msg>>]
    ELSE s

\* setDetectionHistory(prev => [msg, ...prev.slice(0, 9)])
Push(s, msg) ==
    IF s.limits.history
    THEN [s EXCEPT !.detectionHistory =
                       <<msg>> \o SubSeq(@, 1, Min(Len(@), HISTORY_KEEP))]
    ELSE s

\* setActiveDetections(prev => [...validPrevious, ...newDetections]) for n
\* predictions: a detection is kept as the time elapsed since its timestamp
addDetections(n, s) ==
    IF s.limits.overlay
    THEN [s EXCEPT !.activeDetections =
                       SelectSeq(@, LAMBDA d : d < detectionDisplayTime)
                           \o [i \in 1..n |-> 0]]
    ELSE s

\* the log lines of updateWasteStats for n predictions
logDetections(n, s) ==
    IF s.limits.history /\ n > 0
    THEN [s EXCEPT !.detectionHistory =
                       [i \in 1..Min(n, NEW_LINES) |-> "detected"]
                           \o SubSeq(@, 1, Min(Len(@), OLD_LINES))]
    ELSE s

\* detectFromCurrentImage shows, counts and logs the n predictions of an answer
\* (the counters are followed in SpecFrame, where the predictions have classes)
detected(n, s) == logDetections(n, addDetections(n, s))

\* The handle is forgotten but the timer is left pending.
forgetStreamTimeout(s) == [s EXCEPT !.streamTimeoutRef = 0]

\* clearTimeout(streamTimeoutRef.current); streamTimeoutRef.current = null
clearStreamTimeout(s) ==
    [s EXCEPT !.timeouts = SelectSeq(@, LAMBDA t : t.id = 0 \/ t.id # s.streamTimeoutRef),
              !.streamTimeoutRef = 0]

\* -------------------------------------------------------------- classifier
\* Class labels are strings; a string is the sequence of its characters, so that
\* toLowerCase, trim and includes are computed character by character.
UpperCase ==
    <<"A", "B", "C", "D", "E", "F", "G", "H", "I", "J", "K", "L", "M",
      "N", "O", "P", "Q", "R", "S", "T", "U", "V", "W", "X", "Y", "Z">>

LowerCase ==
    <<"a", "b", "c", "d", "e", "f", "g", "h", "i", "j", "k", "l", "m",
      "n", "o", "p", "q", "r", "s", "t", "u", "v", "w", "x", "y", "z">>

\* String.prototype.toLowerCase
toLowerCase(str) ==
    [n \in 1..Len(str) |->
        IF \E k \in 1..Len(UpperCase) : UpperCase[k] = str[n]
        THEN LowerCase[CHOOSE k \in 1..Len(UpperCase) : UpperCase[k] = str[n]]
        ELSE str[n]]

\* String.prototype.toUpperCase (used to spell the labels classified below)
toUpperCase(str) ==
    [n \in 1..Len(str) |->
        IF \E k \in 1..Len(LowerCase) : LowerCase[k] = str[n]
        THEN UpperCase[CHOOSE k \in 1..Len(LowerCase) : LowerCase[k] = str[n]]
        ELSE str[n]]

\* String.prototype.includes
includes(str, sub) ==
    \E k \in 0..(Len(str) - Len(sub)) : SubSeq(str, k + 1, k + Len(sub)) = sub

\* String.prototype.trim
trim(str) ==
    LET inked == {n \in 1..Len(str) : str[n] # " "}
    IN IF inked = {} THEN <<>>
       ELSE SubSeq(str, CHOOSE a \in inked : \A n \in inked : a <= n,
                        CHOOSE b \in inked : \A n \in inked : b >= n)

\* const wasteClassification = { ... } as const, in the order of its keys
wasteClassification ==
    <<[key |-> <<"C", "a", "r", "r", "o", "t", "s">>, value |-> "biodegradable"],
      [key |-> <<"C", "h", "i", "l", "i">>, value |-> "biodegradable"],
      [key |-> <<"E", "g", "g", " ", "s", "h", "e", "l", "l">>, value |-> "biodegradable"],
      [key |-> <<"F", "i", "s", "h", " ", "B", "o", "n", "e", "s">>, value |-> "biodegradable"],
      [key |-> <<"f", "o", "o", "d", " ", "w", "a", "s", "t", "e">>, value |-> "biodegradable"],
      [key |-> <<"G", "a", "r", "l", "i", "c", " ", "p", "e", "e", "l">>, value |-> "biodegradable"],
      [key |-> <<"G", "a", "r", "l", "i", "c">>, value |-> "biodegradable"],
      [key |-> <<"G", "i", "n", "g", "e", "r">>, value |-> "biodegradable"],
      [key |-> <<"L", "a", "u", "r", "e", "l">>, value |-> "biodegradable"],
      [key |-> <<"L", "e", "t", "t", "u", "c", "e">>, value |-> "biodegradable"],
      [key |-> <<"M", "i", "x", "e", "d", " ", "V", "e", "g", "e", "t", "a", "b", "l", "e", "s">>, value |-> "biodegradable"],
      [key |-> <<"O", "n", "i", "o", "n">>, value |-> "biodegradable"],
      [key |-> <<"O", "n", "i", "o", "n", " ", "P", "e", "e", "l">>, value |-> "biodegradable"],
      [key |-> <<"R", "i", "c", "e">>, value |-> "biodegradable"],
      [key |-> <<"T", "i", "s", "s", "u", "e", " ", "p", "a", "p", "e", "r">>, value |-> "biodegradable"],
      [key |-> <<"B", "o", "n", "e", "s">>, value |-> "biodegradable"],
      [key |-> <<"P", "l", "a", "s", "t", "i", "c">>, value |-> "plastic"],
      [key |-> <<"J", "u", "i", "c", "e", " ", "P", "a", "c", "k", "e", "t">>, value |-> "plastic"],
      [key |-> <<"C", "i", "g", "a", "r", "e", "t", "t", "e">>, value |-> "plastic"],
      [key |-> <<"T", "a", "n", "s", "a", "n">>, value |-> "plastic"],
      [key |-> <<"P", "a", "p", "e", "r", " ", "C", "u", "p">>, value |-> "recyclable"],
      [key |-> <<"C", "a", "n", " ", "L", "i", "d">>, value |-> "recyclable"],
      [key |-> <<"O", "b", "j", "e", "c", "t", "s">>, value |-> "recyclable"]>>

\* wasteClassification[className]: the value of the own property className, or
\* "undefined" (class labels that name a property of Object.prototype are left out
\* of the labels classified here)
lookup(className) ==
    IF \E k \in 1..Len(wasteClassification) : wasteClassification[k].key = className
    THEN wasteClassification[
             CHOOSE k \in 1..Len(wasteClassification) :
                 wasteClassification[k].key = className].value
    ELSE "undefined"

plasticKeywords ==
    {<<"p", "l", "a", "s", "t", "i", "c">>, <<"p", "a", "c", "k", "e", "t">>, <<"c", "i", "g", "a", "r", "e", "t", "t", "e">>}

recyclableKeywords ==
    {<<"p", "a", "p", "e", "r">>,
     <<"c", "u", "p">>,
     <<"c", "a", "n">>,
     <<"l", "i", "d">>}

\* the substring tests on className.toLowerCase(), plastic keywords first
heuristic(className) ==
    IF \E w \in plasticKeywords : includes(toLowerCase(className), w) THEN "plastic"
    ELSE IF \E w \in recyclableKeywords : includes(toLowerCase(className), w)
    THEN "recyclable"
    ELSE "biodegradable"

\* the overlay colour detectFromCurrentImage gives a prediction
overlayColor(className) ==
    LET wasteType == IF lookup(className) # "undefined" THEN lookup(className)
                     ELSE heuristic(className)
    IN CASE wasteType = "biodegradable" -> "#00ff00"
         [] wasteType = "plastic" -> "#ff0000"
         [] wasteType = "recyclable" -> "#0066ff"

\* the category updateWasteStats counts a prediction in
statsType(className) ==
    IF lookup(className) # "undefined" THEN lookup(className) ELSE heuristic(className)

\* the command sendDetectionToController sends for the top prediction
command(className) ==
    LET normalizedClassName == trim(className)
        found == {k \in 1..Len(wasteClassification) :
                     toLowerCase(wasteClassification[k].key)
                         = toLowerCase(normalizedClassName)}
    IN IF found # {}
       THEN wasteClassification[CHOOSE k \in found : \A j \in found : k <= j].value
       ELSE heuristic(className)

\* The category a colour of the overlay stands for.
colorCategory(color) ==
    CASE color = "#00ff00" -> "biodegradable"
      [] color = "#ff0000" -> "plastic"
      [] color = "#0066ff" -> "recyclable"
      [] OTHER -> "unknown"

\* ---------------------------------------------------------------- handlers
\* startStream as defined in a render whose values are c.
startStream(c, s) ==
    IF ~c.cameraIP THEN s
    ELSE IF c.isStreaming THEN s
    ELSE LET s1 == IF s.imageRef.mounted
                   THEN [s EXCEPT !.imageRef.onerror = FALSE,
                                  !.imageRef.src = "empty",
                                  !.imageRef.complete = FALSE]
                   ELSE s
             s2 == [s1 EXCEPT !.isStreaming = TRUE,
                              !.streamActive = TRUE,
                              !.streamStartAge = 0,
                              !.timeouts = Append(@, Timer("assign", SHORT_DELAY, 0, c))]
         IN Push(s2, "stream starting")

\* A stop that ends the cooldown with the session.
stopStreamAndCooldown(s) ==
    LET s1 == clearStreamTimeout(s)
        s2 == [s1 EXCEPT !.intervals.detection = OFF,
                         !.isStreaming = FALSE,
                         !.streamActive = FALSE,
                         !.streamStartAge = UNSET,
                         !.isDetecting = FALSE,
                         !.isInCooldown = FALSE,
                         !.cooldownRemaining = 0,
                         !.activeDetections = <<>>]
        s3 == Push(s2, "stream stopped")
    IN IF s3.imageRef.mounted
       THEN [s3 EXCEPT !.imageRef.onerror = FALSE,
                       !.imageRef.src = "blank",
                       !.imageRef.complete = TRUE,
                       !.timeouts = Append(@, Timer("clear", SHORT_DELAY, 0, Closure(s)))]
       ELSE s3

stopStream(s) ==
    LET s1 == clearStreamTimeout(s)
        s2 == [s1 EXCEPT !.intervals.detection = OFF,
                         !.isStreaming = FALSE,
                         !.streamActive = FALSE,
                         !.streamStartAge = UNSET,
                         !.isDetecting = FALSE,
                         !.activeDetections = <<>>]
        s3 == Push(s2, "stream stopped")
    IN IF s3.imageRef.mounted
       THEN [s3 EXCEPT !.imageRef.onerror = FALSE,
                       !.imageRef.src = "blank",
                       !.imageRef.complete = TRUE,
                       !.timeouts = Append(@, Timer("clear", SHORT_DELAY, 0, Closure(s)))]
       ELSE s3

\* fetchBinCapacity up to its await: the request is in flight.
fetchBinCapacity(s) ==
    IF s.binFetches < MaxBinFetches THEN [s EXCEPT !.binFetches = @ + 1] ELSE s

\* fetchBinCapacity after its await: the snapshot is replaced and a bin that is
\* reported Full with warningSent false is announced in the history.
binCapacityArrived(data, s) ==
    LET s1 == [s EXCEPT !.binCapacity = data]
        s2 == IF data.bin1.full /\ ~data.bin1.warningSent
              THEN [Push(s1, "bin 1 full") EXCEPT !.obs.alerts1 = (@ + 1) % 4]
              ELSE s1
    IN IF data.bin2.full /\ ~data.bin2.warningSent
       THEN [Push(s2, "bin 2 full") EXCEPT !.obs.alerts2 = (@ + 1) % 4]
       ELSE s2

\* monitorSensor up to its first await, with the closure of the sensor effect.
monitorSensor(s) ==
    IF Len(s.polls) < MaxPolls
    THEN [s EXCEPT !.polls = Append(@, [phase |-> "sensor",
                                        cs |-> s.sensorClosure.isStreaming,
                                        cd |-> s.sensorClosure.isDetecting,
                                        cip |-> s.sensorClosure.cameraIP,
                                        obj |-> FALSE,
                                        age |-> 0])]
    ELSE s

\* monitorSensor after both awaits, for the suspended invocation p.
monitorSensorDecide(p, s) ==
    LET canStartStream == s.lastStreamStartAge > SENSOR_COOLDOWN
        c == [isStreaming |-> p.cs, isDetecting |-> p.cd,
              isInCooldown |-> FALSE, cameraIP |-> p.cip]
        a == IF p.obj /\ ~p.cs /\ canStartStream
             THEN startStream(c, [Push(s, "object detected")
                                    EXCEPT !.lastStreamStartAge = 0,
                                           !.obs.sensorStarts = Min(@ + 1, 2)])
             ELSE s
        b == IF ~p.obj /\ p.cs /\ a.streamTimeoutRef = 0
             THEN LET id == NewTimerId(a.timeouts)
                  IN [a EXCEPT !.timeouts = Append(@, Timer("grace", GRACE_DELAY, id, c)),
                               !.streamTimeoutRef = id]
             ELSE a
    IN IF p.obj /\ b.streamTimeoutRef # 0
       THEN [clearStreamTimeout(b) EXCEPT !.obs.graceCancelled = TRUE]
       ELSE b

\* ------------------------------------------------------ render and effects
\* The <img ref={imageRef}> element exists only in the streaming branch of the
\* JSX; its src attribute is written by every render (the URL carries Date.now()).
\* An image element that stays in the page while monitoring is on.
mountedWhileMonitoring(s) == s.sensorMonitoring

Mounted(s) == s.sensorMonitoring /\ s.isStreaming

renderImage(s, rendered) ==
    IF ~Mounted(s) THEN [s EXCEPT !.imageRef = NoImage]
    ELSE IF ~s.imageRef.mounted
    THEN [s EXCEPT !.imageRef = [NoImage EXCEPT !.mounted = TRUE, !.src = "stream"]]
    ELSE IF rendered
    THEN [s EXCEPT !.imageRef.src = "stream", !.imageRef.complete = FALSE]
    ELSE s

\* A countdown that is cleared with the session.
cooldownEffectOfSession(s0, s) ==
    IF s0.isInCooldown = s.isInCooldown /\ s0.isStreaming = s.isStreaming THEN s
    ELSE IF s.isInCooldown /\ s.isStreaming
    THEN [s EXCEPT !.intervals.cooldown = COOLDOWN_INTERVAL]
    ELSE [s EXCEPT !.intervals.cooldown = OFF]

\* useEffect(..., [isInCooldown]): the cooldown countdown
cooldownEffect(s0, s) ==
    IF s0.isInCooldown = s.isInCooldown THEN s
    ELSE IF s.isInCooldown
    THEN [s EXCEPT !.intervals.cooldown = COOLDOWN_INTERVAL]
    ELSE [s EXCEPT !.intervals.cooldown = OFF, !.cooldownRemaining = 0]

\* useEffect(..., [streamActive, streamStartTime]): the stream duration check
durationEffect(s0, s) ==
    IF s0.streamActive = s.streamActive /\ s0.streamStartAge = s.streamStartAge THEN s
    ELSE IF s.streamActive /\ s.streamStartAge # UNSET
    THEN [s EXCEPT !.intervals.duration = DURATION_INTERVAL]
    ELSE [s EXCEPT !.intervals.duration = OFF]

\* useEffect(..., [sensorMonitoring]): the bin poll, with its immediate first fetch
binEffect(s0, s) ==
    IF s0.sensorMonitoring = s.sensorMonitoring THEN s
    ELSE IF s.sensorMonitoring
    THEN fetchBinCapacity([s EXCEPT !.intervals.bins = BIN_INTERVAL])
    ELSE [s EXCEPT !.intervals.bins = OFF]

\* useEffect(..., [sensorMonitoring, isStreaming, isDetecting]): the sensor poll.
\* Its cleanup clears the interval and the pending grace timer; its body, when
\* monitoring, captures this render, starts the interval and polls at once.
sensorEffect(s0, s) ==
    IF /\ s0.sensorMonitoring = s.sensorMonitoring
       /\ s0.isStreaming = s.isStreaming
       /\ s0.isDetecting = s.isDetecting
    THEN s
    ELSE LET cleaned == clearStreamTimeout([s EXCEPT !.intervals.sensor = OFF])
         IN IF cleaned.sensorMonitoring
            THEN monitorSensor([cleaned EXCEPT !.intervals.sensor = SENSOR_INTERVAL,
                                               !.sensorClosure = Closure(cleaned)])
            ELSE cleaned

\* useEffect(..., [isStreaming, detectionEnabled, isInCooldown, isDetecting]):
\* the detection interval (detectionEnabled is never set to false)
detectionEffect(s0, s) ==
    IF /\ s0.isStreaming = s.isStreaming
       /\ s0.isInCooldown = s.isInCooldown
       /\ s0.isDetecting = s.isDetecting
    THEN s
    ELSE IF s.isStreaming /\ ~s.isInCooldown
    THEN [s EXCEPT !.intervals.detection = DETECTION_INTERVAL]
    ELSE [s EXCEPT !.intervals.detection = OFF]

\* useEffect(..., [activeDetections]): the clean-up of expired detections.  Its
\* callback changes nothing while the set is empty, so the interval is followed
\* only while there is a detection to expire.
janitorEffect(s0, s) ==
    IF s0.activeDetections = s.activeDetections THEN s
    ELSE IF s.activeDetections # <<>>
    THEN [s EXCEPT !.intervals.janitor = JANITOR_INTERVAL]
    ELSE [s EXCEPT !.intervals.janitor = OFF]

\* Timers that outlive the session they were scheduled in are marked, and the age
\* of the running session is kept (observation only).
observe(s0, s) ==
    LET mark(t) == IF t.kind # "clear" THEN [t EXCEPT !.stale = TRUE] ELSE t
        s1 == IF s0.isStreaming /\ ~s.isStreaming
              THEN [s EXCEPT !.timeouts = [i \in 1..Len(@) |-> mark(@[i])]]
              ELSE s
    IN [s1 EXCEPT !.obs.sessionAge =
                      IF ~s.isStreaming THEN UNSET
                      ELSE IF ~s0.isStreaming THEN 0
                      ELSE @,
                  !.obs.absentFor = IF ~s.isStreaming THEN UNSET ELSE @,
                  !.obs.graceSkipped = IF ~s.isStreaming THEN FALSE ELSE @]

ReactState(s) ==
    <<s.sensorMonitoring, s.isStreaming, s.streamActive, s.streamStartAge,
      s.isDetecting, s.isInCooldown, s.cooldownRemaining, s.cameraIP,
      s.detectionHistory, s.binCapacity, s.ultrasonicData, s.lastCommandSuccess,
      s.activeDetections>>

\* The render that follows a handler which took the state from s0 to s.
\* rendered: the handler set some state (also state that is not modelled).
Render(s0, s, rendered) ==
    LET a == renderImage(s, rendered \/ ReactState(s0) # ReactState(s))
        b == cooldownEffect(s0, a)
        c == durationEffect(s0, b)
        d == binEffect(s0, c)
        e == sensorEffect(s0, d)
        f == detectionEffect(s0, e)
        g == janitorEffect(s0, f)
    IN observe(s0, g)

\* One task of the event loop: the handler's result s, then the render.
Task(s, rendered) == Install(Render(Cur, s, rendered))

\* ------------------------------------------------------------------- Init
\* No inference answer is being handled.
NoFrame == [phase |-> "none", raw |-> <<>>, predictions |-> <<>>, sent |-> "none"]

NoStats == [biodegradable |-> 0, nonBiodegradable |-> 0, recyclable |-> 0]

\* No remote call has been made.
NoRequest ==
    [endpoint |-> "none", production |-> FALSE, stored |-> FALSE, phase |-> "idle",
     requests |-> <<>>, timer |-> FALSE, error |-> "none", calls |-> 0]

\* fetchWithTimeoutAndRetry has not been called: no attempt made, none pending
NoProxy ==
    [phase |-> "idle", retries |-> 0, attempts |-> 0, timer |-> FALSE,
     errors |-> <<>>, response |-> 0, thrown |-> "none", calls |-> 0]

\* new MQTTClient(): no client, not connected, both maps empty; acks are the
\* subscribe requests the broker has not acknowledged, sent what was sent
NoClient ==
    [client |-> FALSE, isConnected |-> FALSE, subscriptions |-> {},
     messageCallbacks |-> {}, acks |-> <<>>, sent |-> <<>>, ended |-> FALSE,
     connects |-> 0, ids |-> 0]

NormalBins == [bin1 |-> [full |-> FALSE, warningSent |-> FALSE],
               bin2 |-> [full |-> FALSE, warningSent |-> FALSE]]

ObsInit == [sessionAge |-> UNSET, absentFor |-> UNSET, graceSkipped |-> FALSE,
            autoCommandAge |-> UNSET, commandGap |-> DETECTION_COOLDOWN,
            autoCommands |-> 0, autoFailed |-> FALSE, sensorStarts |-> 0,
            graceStops |-> 0, graceCancelled |-> FALSE, clock |-> 0, presses |-> 0,
            alerts1 |-> 0, alerts2 |-> 0, lastFetch |-> "none"]

\* The page after its first render: nothing is monitored or streamed, the refs hold
\* 0 (so every cooldown has long elapsed), the camera address comes from
\* localStorage (configured here).
InitPage(l) ==
    /\ sensorMonitoring = FALSE
    /\ isStreaming = FALSE
    /\ streamActive = FALSE
    /\ streamStartAge = UNSET
    /\ isDetecting = FALSE
    /\ isInCooldown = FALSE
    /\ cooldownRemaining = 0
    /\ cameraIP = TRUE
    /\ detectionHistory = <<>>
    /\ binCapacity = NormalBins
    /\ ultrasonicData = FALSE
    /\ lastCommandSuccess = "none"
    /\ activeDetections = <<>>
    /\ wasteStats = NoStats
    /\ detectionCooldownAge = CooldownCap
    /\ lastStreamStartAge = SensorCap
    /\ streamTimeoutRef = 0
    /\ imageRef = NoImage
    /\ intervals = [sensor |-> OFF, bins |-> OFF, detection |-> OFF,
                    cooldown |-> OFF, duration |-> OFF, janitor |-> OFF]
    /\ sensorClosure = [isStreaming |-> FALSE, isDetecting |-> FALSE,
                        isInCooldown |-> FALSE, cameraIP |-> TRUE]
    /\ timeouts = <<>>
    /\ polls = <<>>
    /\ detects = <<>>
    /\ binFetches = 0
    /\ controls = 0
    /\ diagnostics = {}
    /\ request = NoRequest
    /\ proxy = NoProxy
    /\ mqtt = NoClient
    /\ limits = l
    /\ obs = ObsInit

\* The runs explored: whether the operator log and the overlay are recorded, the
\* clock step, the number of clock steps and of operator inputs, and the clock
\* steps a request to the controller may stay unanswered.
Limits(history, overlay, step, clock, presses, patience) ==
    [history |-> history, overlay |-> overlay, faults |-> FALSE, predictions |-> 1,
     step |-> step,
     clock |-> clock, presses |-> presses, patience |-> patience]

\* No class label has been received.
Unclassified ==
    [label |-> <<>>, done |-> FALSE, color |-> "", wasteType |-> "", command |-> ""]

InitWith(history, clock, presses, patience) ==
    /\ InitPage(Limits(history, FALSE, TICK, clock, presses, patience))
    /\ classified = Unclassified
    /\ frame = NoFrame

Init ==
    /\ InitPage([Limits(TRUE, TRUE, TICK, MaxClock, MaxPresses, MaxPatience)
                    EXCEPT !.faults = TRUE])
    /\ classified = Unclassified
    /\ frame = NoFrame

\* --------------------------------------------------------------- operator
Room == Len(timeouts) <= MaxPending

\* Callbacks that are due at a clock instant run at that instant; the operator and
\* the devices act between two instants.
AtInstant ==
    \/ \E i \in 1..Len(timeouts) : timeouts[i].left = 0
    \/ \E i \in 1..Len(detects) : detects[i].phase = "delay" /\ detects[i].left = 0
    \/ \E k \in DOMAIN intervals : intervals[k] = 0

Between == ~AtInstant

\* The operator's input, counted.
Press(s) == [s EXCEPT !.obs.presses = @ + 1]

CanPress == Between /\ obs.presses < limits.presses

\* startSensorMonitoring (button enabled while not monitoring)
StartMonitoring ==
    /\ ~sensorMonitoring
    /\ CanPress
    /\ Task(Push([Press(Cur) EXCEPT !.sensorMonitoring = TRUE], "monitoring started"), TRUE)

\* stopSensorMonitoring (button enabled while monitoring)
StopMonitoring ==
    /\ sensorMonitoring
    /\ Room /\ CanPress
    /\ Task(stopStream(Push([Press(Cur) EXCEPT !.sensorMonitoring = FALSE],
                            "monitoring stopped")), TRUE)

\* the Start Stream button (disabled={isStreaming || !sensorMonitoring})
StartStreamButton ==
    /\ sensorMonitoring /\ ~isStreaming
    /\ Room /\ CanPress
    /\ Task(startStream(Closure(Cur), Press(Cur)), cameraIP)

\* the Stop Stream button (disabled={!isStreaming})
StopStreamButton ==
    /\ isStreaming
    /\ Room /\ CanPress
    /\ Task(stopStream(Press(Cur)), TRUE)

\* ------------------------------------------------------------------- time
Due(q, i) ==
    \/ q[i].left = 0
    \/ /\ q[i].left < limits.step
       /\ \A j \in 1..(i - 1) : ~(q[j].left > 0 /\ q[j].left < limits.step)

Later(n) == IF n = OFF THEN OFF ELSE n - limits.step

\* Nothing is scheduled or awaited and every timestamp is older than any delay it
\* is compared with: a clock step would change nothing the program can observe.
Idle ==
    /\ ~sensorMonitoring /\ ~isStreaming
    /\ timeouts = <<>> /\ polls = <<>> /\ detects = <<>>
    /\ binFetches = 0 /\ controls = 0 /\ diagnostics = {}
    /\ \A k \in DOMAIN intervals : intervals[k] = OFF
    /\ detectionCooldownAge = CooldownCap
    /\ lastStreamStartAge = SensorCap

\* One clock step.  Every callback that is due within the step has run.  The steps
\* of a run are counted from the first one that can make a difference.
Tick ==
    /\ obs.clock < limits.clock
    /\ ~Idle
    /\ \A i \in 1..Len(polls) : polls[i].age < limits.patience
    /\ binFetches > 0 => limits.patience > 0
    /\ \A i \in 1..Len(timeouts) : timeouts[i].left >= limits.step
    /\ \A i \in 1..Len(detects) :
           detects[i].phase = "delay" => detects[i].left >= limits.step
    /\ Between
    /\ Install([Cur EXCEPT
           !.streamStartAge = Elapse(@, limits.step, StreamCap),
           !.detectionCooldownAge = Elapse(@, limits.step, CooldownCap),
           !.lastStreamStartAge = Elapse(@, limits.step, SensorCap),
           !.activeDetections =
               [i \in 1..Len(@) |-> Elapse(@[i], limits.step, DisplayCap)],
           !.timeouts = [i \in 1..Len(@) |-> [@[i] EXCEPT !.left = @ - limits.step]],
           !.detects = [i \in 1..Len(@) |->
                           IF @[i].phase = "delay"
                           THEN [@[i] EXCEPT !.left = @ - limits.step]
                           ELSE @[i]],
           !.polls = [i \in 1..Len(@) |-> [@[i] EXCEPT !.age = @ + 1]],
           !.intervals = [k \in DOMAIN @ |-> Later(@[k])],
           !.obs.clock = @ + 1,
           !.obs.sessionAge = Elapse(@, limits.step, StreamCap),
           !.obs.absentFor = Elapse(@, limits.step, StreamCap),
           !.obs.autoCommandAge = Elapse(@, limits.step, CooldownCap)])

\* -------------------------------------------------------------- intervals
\* setInterval(monitorSensor, 1000)
SensorPollTick ==
    /\ intervals.sensor = 0
    /\ Task(monitorSensor([Cur EXCEPT !.intervals.sensor = SENSOR_INTERVAL]), FALSE)

\* setInterval(() => fetchBinCapacity(), 2000)
BinPollTick ==
    /\ intervals.bins = 0
    /\ Task(fetchBinCapacity([Cur EXCEPT !.intervals.bins = BIN_INTERVAL]), FALSE)

\* detectFromCurrentImage up to its first await, in a render whose values are c
detectFromCurrentImage(c, s) ==
    IF ~s.imageRef.mounted \/ s.imageRef.src \in {"none", "empty"}
       \/ c.isDetecting \/ ~c.isStreaming
    THEN s
    ELSE IF Len(s.detects) >= MaxDetects THEN s
    ELSE [s EXCEPT !.isDetecting = TRUE,
                   !.detects = Append(@, [phase |-> "delay", cc |-> c.isInCooldown,
                                          left |-> SHORT_DELAY])]

\* the detection interval's callback
DetectionTick ==
    /\ intervals.detection = 0
    /\ LET s == [Cur EXCEPT !.intervals.detection = DETECTION_INTERVAL]
           shouldDetect == /\ s.imageRef.mounted
                           /\ s.imageRef.src \notin {"none", "empty"}
                           /\ ~isDetecting
                           /\ s.imageRef.complete
       IN Task(IF shouldDetect THEN detectFromCurrentImage(Closure(Cur), s) ELSE s,
               FALSE)

\* the cooldown countdown's callback
CooldownTick ==
    /\ intervals.cooldown = 0
    /\ LET remaining == DETECTION_COOLDOWN - detectionCooldownAge
           s == [Cur EXCEPT !.intervals.cooldown = COOLDOWN_INTERVAL,
                            !.cooldownRemaining = Max(0, (remaining + 999) \div 1000)]
       IN Task(IF remaining <= 0
               THEN [s EXCEPT !.isInCooldown = FALSE,
                              !.cooldownRemaining = 0,
                              !.intervals.cooldown = OFF]
               ELSE s, TRUE)

\* the stream duration check's callback
DurationTick ==
    /\ intervals.duration = 0
    /\ LET duration == streamStartAge \div 1000
           s == [Cur EXCEPT !.intervals.duration = DURATION_INTERVAL]
       IN Task(IF duration >= STREAM_TIMEOUT \div 1000
               THEN Push(stopStream(s), "stream timeout")
               ELSE s, TRUE)

\* the clean-up interval's callback: detections shown for detectionDisplayTime
\* or longer are dropped
JanitorTick ==
    /\ intervals.janitor = 0
    /\ LET s == [Cur EXCEPT !.intervals.janitor = JANITOR_INTERVAL]
           validDetections == SelectSeq(activeDetections,
                                        LAMBDA d : d < detectionDisplayTime)
       IN Task(IF Len(validDetections) # Len(activeDetections)
               THEN [s EXCEPT !.activeDetections = validDetections]
               ELSE s, FALSE)

\* ------------------------------------------------------- sensor poll awaits
\* How the last fetch of a poll ended (observation only, kept when limits.faults).
noteFetch(outcome, s) ==
    IF s.limits.faults THEN [s EXCEPT !.obs.lastFetch = outcome] ELSE s

\* fetchESP32('sensor') answers invocation i with objectDetected = obj
SensorReports(i, obj) ==
    /\ Between
    /\ i \in 1..Len(polls) /\ polls[i].phase = "sensor"
    /\ Task(noteFetch("ok", [Cur EXCEPT !.ultrasonicData = obj,
                                        !.polls[i].phase = "bins",
                                        !.polls[i].obj = obj]), TRUE)

\* A catch of monitorSensor that also forgets the last reading.
monitorSensorResets(i, s) ==
    noteFetch("failed", [s EXCEPT !.polls = RemoveAt(@, i), !.ultrasonicData = FALSE])

\* the catch of monitorSensor, for invocation i: it logs to the console
monitorSensorCaught(i, s) ==
    noteFetch("failed", [s EXCEPT !.polls = RemoveAt(@, i)])

\* fetchESP32('sensor') fails (unreachable, timeout, non-2xx)
SensorFails(i) ==
    /\ Between
    /\ i \in 1..Len(polls) /\ polls[i].phase = "sensor"
    /\ Task(monitorSensorCaught(i, Cur), FALSE)

\* What invocation p read, once it decides (observation only): absentFor is the
\* time since the first absent reading of an unbroken series during a session, read
\* by an invocation that knows of the session.
noteReading(p, s0, s) ==
    [s EXCEPT !.obs.absentFor =
                  IF p.obj \/ ~s0.isStreaming THEN UNSET
                  ELSE IF @ = UNSET /\ p.cs THEN 0 ELSE @,
              !.obs.graceSkipped = IF p.obj THEN FALSE ELSE @]

\* the awaited fetchBinCapacity of invocation i answers with data
PollBinsArrive(i, data) ==
    /\ Between
    /\ i \in 1..Len(polls) /\ polls[i].phase = "bins"
    /\ LET p == polls[i]
           s == binCapacityArrived(data, [Cur EXCEPT !.polls = RemoveAt(@, i)])
       IN Task(noteFetch("ok", noteReading(p, Cur, monitorSensorDecide(p, s))), TRUE)

\* the awaited fetchBinCapacity of invocation i fails: it logs and returns
PollBinsFail(i) ==
    /\ Between
    /\ i \in 1..Len(polls) /\ polls[i].phase = "bins"
    /\ LET p == polls[i]
           s == [Cur EXCEPT !.polls = RemoveAt(@, i)]
       IN Task(noteFetch("failed", noteReading(p, Cur, monitorSensorDecide(p, s))),
               FALSE)

\* ------------------------------------------------------- bin poll awaits
BinsArrive(data) ==
    /\ Between
    /\ binFetches > 0
    /\ Task(noteFetch("ok", binCapacityArrived(data, [Cur EXCEPT !.binFetches = @ - 1])),
            TRUE)

BinsFail ==
    /\ Between
    /\ binFetches > 0
    /\ Task(noteFetch("failed", [Cur EXCEPT !.binFetches = @ - 1]), FALSE)

\* ------------------------------------------------------------ video frames
\* the stream delivers a frame: handleImageLoad only counts it
FrameLoad ==
    /\ Between
    /\ imageRef.mounted /\ imageRef.src = "stream" /\ ~imageRef.complete
    /\ Task([Cur EXCEPT !.imageRef.complete = TRUE], FALSE)

\* handleImageError of a render whose values are c: one reconnect attempt later
handleImageError(c, s) ==
    Push([s EXCEPT !.timeouts = Append(@, Timer("reconnect", RECONNECT_DELAY, 0, c))],
         "stream failed - retrying")

\* the frame fails to load: the JSX onError handler of the current render runs, and
\* the handler startStream attached as the element's onerror property, if any
ImageError ==
    /\ Between
    /\ imageRef.mounted /\ imageRef.src = "stream"
    /\ Room
    /\ LET s == handleImageError(Closure(Cur), [Cur EXCEPT !.imageRef.complete = FALSE])
           attached == [isStreaming |-> imageRef.ecs, isDetecting |-> FALSE,
                        isInCooldown |-> FALSE, cameraIP |-> imageRef.ecip]
       IN Task(IF imageRef.onerror THEN handleImageError(attached, s) ELSE s, TRUE)

\* ------------------------------------------------------- detection awaits
\* An end of invocation i that leaves the detecting flag as it is.
detectionLeftRunning(i, s) ==
    [s EXCEPT !.detects = RemoveAt(@, i)]

\* finally { setIsDetecting(false) } of invocation i
detectionDone(i, s) ==
    [s EXCEPT !.isDetecting = FALSE, !.detects = RemoveAt(@, i)]

\* A gate that trusts the rendered isInCooldown alone (the test of line 1170
\* without the timestamp test of line 1175).
gateOpenByFlag(cc, s) == ~cc

\* the cooldown test of sendDetectionToController, in a render whose
\* isInCooldown is cc
gateOpen(cc, s) ==
    ~cc /\ s.detectionCooldownAge >= DETECTION_COOLDOWN

\* A gate that sends the command and forgets to start the cooldown.
sendWithoutCooldown(i, s) ==
    [s EXCEPT !.detects[i].phase = "control",
              !.obs.commandGap = IF s.obs.autoCommandAge = UNSET THEN @
                                 ELSE Min(@, s.obs.autoCommandAge),
              !.obs.autoCommandAge = 0,
              !.obs.autoCommands = Min(@ + 1, 2),
              !.obs.autoFailed = FALSE]

\* sendDetectionToController for a qualifying detection, up to the await of
\* manualControl: the control request of invocation i is in flight
sendDetectionToController(i, s) ==
    [s EXCEPT !.detectionCooldownAge = 0,
              !.isInCooldown = TRUE,
              !.cooldownRemaining = (DETECTION_COOLDOWN + 999) \div 1000,
              !.detects[i].phase = "control",
              !.obs.commandGap = IF s.obs.autoCommandAge = UNSET THEN @
                                 ELSE Min(@, s.obs.autoCommandAge),
              !.obs.autoCommandAge = 0,
              !.obs.autoCommands = Min(@ + 1, 2),
              !.obs.autoFailed = FALSE]

\* await new Promise(resolve => setTimeout(resolve, 100)) of invocation i is over:
\* roboflowAPI.detectFromImage is called, whatever the page has become meanwhile
DelayEnds(i) ==
    /\ i \in 1..Len(detects) /\ detects[i].phase = "delay"
    /\ detects[i].left < limits.step
    /\ Task([Cur EXCEPT !.detects[i].phase = "infer", !.detects[i].left = 0], FALSE)

\* the inference request of invocation i fails: the catch logs it
InferenceFails(i) ==
    /\ Between
    /\ i \in 1..Len(detects) /\ detects[i].phase = "infer"
    /\ Task(detectionDone(i, Push(Cur, "detection failed")), TRUE)

\* ... answers with no prediction
InferenceEmpty(i) ==
    /\ Between
    /\ i \in 1..Len(detects) /\ detects[i].phase = "infer"
    /\ Task(detectionDone(i, Cur), TRUE)

\* ... answers with predictions that are all below confidenceThreshold
InferenceLow(i) ==
    /\ Between
    /\ i \in 1..Len(detects) /\ detects[i].phase = "infer"
    /\ \E n \in 1..limits.predictions : Task(detectionDone(i, detected(n, Cur)), TRUE)

\* ... answers with a prediction at or above confidenceThreshold
InferenceHigh(i) ==
    /\ Between
    /\ i \in 1..Len(detects) /\ detects[i].phase = "infer"
    /\ \E n \in 1..limits.predictions :
           LET s == detected(n, Cur)
           IN Task(IF gateOpen(detects[i].cc, s)
                   THEN sendDetectionToController(i, s)
                   ELSE detectionDone(i, s), TRUE)

\* manualControl of invocation i returns (ok or not: it catches the failure), and
\* sendDetectionToController goes on: history entry, stream stop in 2000 ms
ControlAnswers(i, ok) ==
    /\ Between
    /\ i \in 1..Len(detects) /\ detects[i].phase = "control"
    /\ LET s1 == [Cur EXCEPT !.lastCommandSuccess = IF ok THEN "ok" ELSE "failed",
                             !.obs.autoFailed = ~ok]
           s2 == Push(s1, "command sent")
           s3 == [s2 EXCEPT !.timeouts =
                      Append(@, Timer("poststop", POST_TRIGGER_DELAY, 0, Closure(Cur)))]
       IN Task(detectionDone(i, s3), TRUE)

\* ---------------------------------------------------------------- timeouts
Pending(i, kind) ==
    /\ i \in 1..Len(timeouts)
    /\ timeouts[i].kind = kind
    /\ Due(timeouts, i)

\* The state when timeout i starts to run.
Fired(i) == [Cur EXCEPT !.timeouts = RemoveAt(@, i)]

\* startStream's setTimeout(..., 100): attach the handlers, assign the stream URL
AssignSource(i) ==
    /\ Pending(i, "assign")
    /\ LET t == timeouts[i]
       IN Task(IF imageRef.mounted
               THEN [Fired(i) EXCEPT !.imageRef.onerror = TRUE,
                                     !.imageRef.ecs = t.cs,
                                     !.imageRef.ecip = t.cip,
                                     !.imageRef.src = "stream",
                                     !.imageRef.complete = FALSE]
               ELSE Fired(i), FALSE)

\* stopStream's setTimeout(..., 100): clear the source entirely
ClearSource(i) ==
    /\ Pending(i, "clear")
    /\ Task(IF imageRef.mounted
            THEN [Fired(i) EXCEPT !.imageRef.src = "none", !.imageRef.complete = FALSE]
            ELSE Fired(i), FALSE)

\* monitorSensor's grace timer
GraceTimer(i) ==
    /\ Pending(i, "grace")
    /\ LET t == timeouts[i]
           s == IF ~t.cd THEN stopStream(Fired(i))
                ELSE [Fired(i) EXCEPT !.obs.graceSkipped = TRUE]
       IN Task([s EXCEPT !.streamTimeoutRef = 0,
                         !.obs.graceStops = IF ~t.cd /\ isStreaming THEN Min(@ + 1, 2) ELSE @],
               ~t.cd)

\* handleImageError's setTimeout(..., 3000)
ReconnectTimer(i) ==
    /\ Pending(i, "reconnect")
    /\ LET t == timeouts[i]
       IN Task(IF t.cs /\ t.cip /\ imageRef.mounted
               THEN [Fired(i) EXCEPT
                        !.imageRef.src = "empty",
                        !.imageRef.complete = FALSE,
                        !.timeouts = Append(@, [Timer("reassign", SHORT_DELAY, 0, Closure(Cur))
                                                  EXCEPT !.stale = t.stale])]
               ELSE Fired(i), FALSE)

\* ... and its inner setTimeout(..., 100)
ReassignSource(i) ==
    /\ Pending(i, "reassign")
    /\ Task(IF imageRef.mounted
            THEN [Fired(i) EXCEPT !.imageRef.src = "stream", !.imageRef.complete = FALSE]
            ELSE Fired(i), FALSE)

\* sendDetectionToController's setTimeout(..., 2000)
PostTriggerStop(i) ==
    /\ Pending(i, "poststop")
    /\ Task(Push(stopStream(Fired(i)), "stream stopped - processing"), TRUE)

\* ------------------------------------------------------ other operator input
\* a Manual Controller button: manualControl(command) up to its await
ManualControl ==
    /\ controls = 0
    /\ CanPress
    /\ Task([Press(Cur) EXCEPT !.controls = 1], FALSE)

\* An answer whose failure ends the cooldown.
ManualControlEndsCooldown(ok) ==
    /\ Between
    /\ controls > 0
    /\ Task([Cur EXCEPT !.controls = 0,
                        !.lastCommandSuccess = IF ok THEN "ok" ELSE "failed",
                        !.isInCooldown = IF ok THEN @ ELSE FALSE,
                        !.cooldownRemaining = IF ok THEN @ ELSE 0], TRUE)

\* ... and after it
ManualControlAnswers(ok) ==
    /\ Between
    /\ controls > 0
    /\ Task([Cur EXCEPT !.controls = 0,
                        !.lastCommandSuccess = IF ok THEN "ok" ELSE "failed"], TRUE)

\* updateSensorData, forceDetection, resetDetection: a panel button sends one
\* request to the controller ...
DiagnosticButton(kind) ==
    /\ kind \notin diagnostics
    /\ CanPress
    /\ Task([Press(Cur) EXCEPT !.diagnostics = @ \cup {kind}], FALSE)

\* ... and logs its success; a failure goes to the console
DiagnosticAnswers(kind, ok, obj) ==
    /\ Between
    /\ kind \in diagnostics
    /\ kind # "sensor data updated" => ~obj
    /\ LET s == [Cur EXCEPT !.diagnostics = @ \ {kind}]
       IN Task(IF ~ok THEN s
               ELSE IF kind = "sensor data updated"
               THEN Push([s EXCEPT !.ultrasonicData = obj], kind)
               ELSE Push(s, kind), ok)

Diagnostics == {"sensor data updated", "force started", "detection reset"}

\* the Refresh button of the bin panel
RefreshBins ==
    /\ binFetches < MaxBinFetches
    /\ CanPress
    /\ Task(fetchBinCapacity(Press(Cur)), FALSE)

\* handleCameraIPChange: the address field is edited (set or emptied)
ChangeCameraIP ==
    /\ CanPress
    /\ Task([Press(Cur) EXCEPT !.cameraIP = ~@], TRUE)

\* ------------------------------------------------------------ specification
\* What the controller may answer to GET /bins.
Bin(full, sent) == [full |-> full, warningSent |-> sent]

BinReports ==
    {[bin1 |-> Bin(f, w), bin2 |-> Bin(FALSE, FALSE)] : f, w \in BOOLEAN}
    \cup {[bin1 |-> Bin(FALSE, FALSE), bin2 |-> Bin(TRUE, FALSE)]}

Operator ==
    \/ StartMonitoring
    \/ StopMonitoring
    \/ StartStreamButton
    \/ StopStreamButton

Intervals ==
    \/ SensorPollTick
    \/ BinPollTick
    \/ DetectionTick
    \/ CooldownTick
    \/ DurationTick
    \/ JanitorTick

Timeouts ==
    \E i \in 1..Len(timeouts) :
        \/ AssignSource(i)
        \/ ClearSource(i)
        \/ GraceTimer(i)
        \/ ReconnectTimer(i)
        \/ ReassignSource(i)
        \/ PostTriggerStop(i)

Sensor(readings, reports) ==
    \E i \in 1..Len(polls) :
        \/ \E obj \in readings : SensorReports(i, obj)
        \/ SensorFails(i)
        \/ \E data \in reports : PollBinsArrive(i, data)
        \/ PollBinsFail(i)

Bins(reports) ==
    \/ \E data \in reports : BinsArrive(data)
    \/ BinsFail

Inference ==
    \E i \in 1..Len(detects) :
        \/ DelayEnds(i)
        \/ InferenceFails(i)
        \/ InferenceEmpty(i)
        \/ InferenceLow(i)
        \/ InferenceHigh(i)
        \/ \E ok \in BOOLEAN : ControlAnswers(i, ok)

\* Every step the page can take.
Next ==
    \/ Operator
    \/ ManualControl
    \/ \E ok \in BOOLEAN : ManualControlAnswers(ok)
    \/ RefreshBins
    \/ ChangeCameraIP
    \/ \E kind \in Diagnostics : DiagnosticButton(kind)
    \/ \E kind \in Diagnostics, ok, obj \in BOOLEAN : DiagnosticAnswers(kind, ok, obj)
    \/ Tick
    \/ Intervals
    \/ Timeouts
    \/ Sensor(BOOLEAN, BinReports)
    \/ Bins(BinReports)
    \/ FrameLoad
    \/ ImageError
    \/ Inference

Spec == Init /\ [][Next]_vars

\* --------------------------------------------------------- actuation gate
\* The detection loop and the actuation gate.  The operator starts monitoring and
\* starts and stops the stream; the camera delivers frames; inference answers in
\* every way; the controller's sensor and bin endpoints are unreachable, so the
\* proximity monitor stays out of the way.
NextGate ==
    \/ StartMonitoring
    \/ StartStreamButton
    \/ StopStreamButton
    \/ Tick
    \/ SensorPollTick
    \/ BinPollTick
    \/ DetectionTick
    \/ CooldownTick
    \/ DurationTick
    \/ \E i \in 1..Len(timeouts) : AssignSource(i)
    \/ \E i \in 1..Len(timeouts) : ClearSource(i)
    \/ \E i \in 1..Len(timeouts) : PostTriggerStop(i)
    \/ \E i \in 1..Len(polls) : SensorFails(i)
    \/ BinsFail
    \/ FrameLoad
    \/ \E i \in 1..Len(detects) : DelayEnds(i)
    \/ \E i \in 1..Len(detects) : InferenceFails(i)
    \/ \E i \in 1..Len(detects) : InferenceEmpty(i)
    \/ \E i \in 1..Len(detects) : InferenceLow(i)
    \/ \E i \in 1..Len(detects) : InferenceHigh(i)
    \/ \E i \in 1..Len(detects), ok \in BOOLEAN : ControlAnswers(i, ok)

SpecGate == InitWith(FALSE, GateClock, GatePresses, 0) /\ [][NextGate]_vars

\* C1: automatic control commands are at least DETECTION_COOLDOWN apart: the
\* smallest time observed between one command of sendDetectionToController and
\* the next is never below 10000 ms.
C1_CooldownInvariant == obs.commandGap >= DETECTION_COOLDOWN

\* Two automatic commands have been issued in one run.
C1_Witness == obs.autoCommands = 2 /\ obs.commandGap >= DETECTION_COOLDOWN

\* The inference calls that have not resolved.
InFlight == {i \in 1..Len(detects) : detects[i].phase = "infer"}

\* C2: at most one inference call is in flight at any time.
C2_OneInferenceInFlight == Cardinality(InFlight) <= 1

\* C5: once the control command of a qualifying detection has failed, the
\* cooldown is off (isInCooldown false, remaining 0).
C5_FailureResetsCooldown ==
    obs.autoFailed => ~isInCooldown /\ cooldownRemaining = 0

\* A callback scheduled in a session that has been stopped since runs.
StaleFires(i) ==
    /\ timeouts[i].stale
    /\ \/ AssignSource(i)
       \/ GraceTimer(i)
       \/ ReconnectTimer(i)
       \/ ReassignSource(i)
       \/ PostTriggerStop(i)

\* C10: a callback scheduled during a session that was stopped has no effect on
\* the stream state when it fires.
C10_StoppedSessionCallbacksInert ==
    [][\A i \in 1..Len(timeouts) :
           StaleFires(i) => UNCHANGED <<isStreaming, streamActive, streamStartAge>>]_vars

\* The control requests of sendDetectionToController that are in flight.
Commands(q) == {i \in 1..Len(q) : q[i].phase = "control"}

\* A qualifying detection reaches the gate and the gate is open.
GatePassed(i) == InferenceHigh(i) /\ gateOpen(detects[i].cc, Cur)

PostTriggerStops(q) ==
    {j \in 1..Len(q) : q[j].kind = "poststop" /\ q[j].left = POST_TRIGGER_DELAY}

Starts == Len(detects') = Len(detects) + 1

\* C21: an inference call is started only while a session is active and no
\* cooldown is: that holds when detectFromCurrentImage passes its guard and when,
\* its delay over, it sends the inference request.
C21_DetectionGated ==
    /\ [][Starts => isStreaming /\ ~isInCooldown]_vars
    /\ [][\A i \in 1..Len(detects) : DelayEnds(i) => isStreaming /\ ~isInCooldown]_vars

\* The detection loop with the event log kept, for a few seconds of one session.
InitLoop ==
    /\ InitPage(Limits(TRUE, FALSE, TICK, LoopClock, LoopPresses, 0))
    /\ classified = Unclassified
    /\ frame = NoFrame

SpecLoop == InitLoop /\ [][NextGate]_vars

\* invocation i of detectFromCurrentImage ends in this step
Ends(i) ==
    \/ InferenceFails(i)
    \/ InferenceEmpty(i)
    \/ InferenceLow(i)
    \/ InferenceHigh(i) /\ ~gateOpen(detects[i].cc, Cur)
    \/ ControlAnswers(i, TRUE)
    \/ ControlAnswers(i, FALSE)

\* the image element holds a loaded frame
FrameReady == imageRef.mounted /\ imageRef.src = "stream" /\ imageRef.complete

\* C20: every end of a detection call, a failed inference included, clears the
\* detecting flag; while a session is active and no cooldown is, the detection
\* interval runs; and a tick of it that finds a loaded frame and the flag clear
\* starts a new call.
C20_LoopSurvivesFailure ==
    /\ [][\A i \in 1..Len(detects) : Ends(i) => ~isDetecting']_vars
    /\ [](isStreaming /\ ~isInCooldown => intervals.detection # OFF)
    /\ [][DetectionTick /\ FrameReady /\ ~isDetecting /\ Len(detects) < MaxDetects =>
              /\ isDetecting'
              /\ Len(detects') = Len(detects) + 1]_vars

\* In one session an inference has failed and the next call is in flight.
C20_Witness ==
    /\ detectionHistory = <<"detection failed", "stream starting", "monitoring started">>
    /\ isStreaming /\ isDetecting
    /\ Len(detects) = 1 /\ detects[1].phase = "infer"

\* ------------------------------------------------------- proximity monitor
\* The proximity monitor and the stream controller.  The controller answers the
\* sensor poll with either reading, possibly a clock step late, or not at all; the
\* camera delivers no frame, so the detection loop skips every tick.
NextProximity ==
    \/ StartMonitoring
    \/ StartStreamButton
    \/ StopStreamButton
    \/ Tick
    \/ SensorPollTick
    \/ BinPollTick
    \/ DetectionTick
    \/ DurationTick
    \/ \E i \in 1..Len(timeouts) : AssignSource(i)
    \/ \E i \in 1..Len(timeouts) : ClearSource(i)
    \/ \E i \in 1..Len(polls), obj \in BOOLEAN : SensorReports(i, obj)
    \/ \E i \in 1..Len(polls) : SensorFails(i)
    \/ \E i \in 1..Len(polls) : PollBinsArrive(i, NormalBins)
    \/ \E i \in 1..Len(polls) : PollBinsFail(i)
    \/ BinsArrive(NormalBins)
    \/ BinsFail

InitProximity ==
    /\ InitPage([Limits(FALSE, FALSE, TICK, ProximityClock, ProximityPresses,
                        ProximityPatience) EXCEPT !.faults = TRUE])
    /\ classified = Unclassified
    /\ frame = NoFrame

SpecProximity == InitProximity /\ [][NextProximity]_vars

\* C19: a failed sensor fetch or bin fetch changes nothing: the last reading and
\* the last bin snapshot stay, monitoring stays on, the stream is neither started
\* nor stopped and the polls keep their schedule.  When the bin fetch awaited by
\* the sensor poll fails, the poll goes on to act on its reading: a stream then
\* starts only for a reading that reports an object.
C19_PollFailuresSwallowed ==
    /\ [][(\E i \in 1..Len(polls) : SensorFails(i)) \/ BinsFail =>
              UNCHANGED <<ultrasonicData, binCapacity, sensorMonitoring, isStreaming,
                          streamActive, intervals, timeouts, detectionHistory>>]_vars
    /\ [][\A i \in 1..Len(polls) : PollBinsFail(i) =>
              /\ UNCHANGED <<ultrasonicData, binCapacity, sensorMonitoring>>
              /\ isStreaming' # isStreaming => polls[i].obj /\ isStreaming'
              /\ sensorMonitoring => intervals'.sensor # OFF /\ intervals'.bins # OFF]_vars

\* A fetch has failed after the sensor reported an object: the reading is kept and
\* the polls go on.
C19_Witness ==
    /\ obs.lastFetch = "failed"
    /\ ultrasonicData
    /\ sensorMonitoring
    /\ intervals.sensor # OFF /\ intervals.bins # OFF

\* C3: while a session stays active nothing restarts it: its start time is never
\* moved forward (the time elapsed since the start never decreases).
C3_StartIsIdempotent ==
    [][isStreaming /\ isStreaming' => streamStartAge' >= streamStartAge]_vars

\* C4: the proximity monitor records a stream start (lastStreamStart = now) only
\* when no stream is active and more than SENSOR_COOLDOWN has elapsed since the
\* start it recorded before.
C4_SensorStartOnlyWhenIdle ==
    [][lastStreamStartAge' < lastStreamStartAge =>
           ~isStreaming /\ lastStreamStartAge > SENSOR_COOLDOWN]_vars

\* --------------------------------------------------------------- watchdog
\* One session up to its forced stop: the object stays in front of the sensor, the
\* controller answers up to WatchdogPatience clock steps late, no frame arrives.
NextWatchdog ==
    \/ StartMonitoring
    \/ StartStreamButton
    \/ Tick
    \/ SensorPollTick
    \/ BinPollTick
    \/ DetectionTick
    \/ DurationTick
    \/ \E i \in 1..Len(timeouts) : AssignSource(i)
    \/ \E i \in 1..Len(timeouts) : ClearSource(i)
    \/ \E i \in 1..Len(polls) : SensorReports(i, TRUE)
    \/ \E i \in 1..Len(polls) : PollBinsArrive(i, NormalBins)
    \/ BinsArrive(NormalBins)

SpecWatchdog ==
    InitWith(FALSE, WatchdogClock, WatchdogPresses, WatchdogPatience)
        /\ [][NextWatchdog]_vars

\* C6: no session is active for longer than STREAM_TIMEOUT plus one watchdog tick.
C6_WatchdogBound == isStreaming => obs.sessionAge <= STREAM_TIMEOUT + TICK

\* --------------------------------------------------------------- debounce
\* A session under sensor readings of either kind, answered at once, while the
\* detection loop runs: frames arrive and inference finds nothing.
NextDebounce ==
    \/ StartMonitoring
    \/ StartStreamButton
    \/ Tick
    \/ SensorPollTick
    \/ BinPollTick
    \/ DetectionTick
    \/ DurationTick
    \/ \E i \in 1..Len(timeouts) : AssignSource(i)
    \/ \E i \in 1..Len(timeouts) : ClearSource(i)
    \/ \E i \in 1..Len(timeouts) : GraceTimer(i)
    \/ \E i \in 1..Len(polls), obj \in BOOLEAN : SensorReports(i, obj)
    \/ \E i \in 1..Len(polls) : PollBinsArrive(i, NormalBins)
    \/ BinsArrive(NormalBins)
    \/ FrameLoad
    \/ \E i \in 1..Len(detects) : DelayEnds(i)
    \/ \E i \in 1..Len(detects) : InferenceEmpty(i)

SpecDebounce ==
    InitWith(FALSE, DebounceClock, DebouncePresses, 0) /\ [][NextDebounce]_vars

\* C7: while the sensor keeps reporting the object absent, the grace timer stops
\* the stream about GRACE_DELAY after the first absent reading, unless a detection
\* is in progress or was when the timer elapsed.
C7_GraceTimerStopsStream ==
    isStreaming /\ ~isDetecting /\ ~obs.graceSkipped
        => obs.absentFor <= GRACE_DELAY + TICK

GraceTimers == {i \in 1..Len(timeouts) : timeouts[i].kind = "grace"}

\* The pending grace timer, if any, is the one streamTimeoutRef holds.
GraceTimerTracked ==
    /\ Cardinality(GraceTimers) <= 1
    /\ \A i \in GraceTimers : timeouts[i].id = streamTimeoutRef

\* A sensor poll that read objectDetected = true runs to its end.
ObjectSeen ==
    \E i \in 1..Len(polls) :
        /\ polls[i].phase = "bins" /\ polls[i].obj
        /\ PollBinsArrive(i, NormalBins) \/ PollBinsFail(i)

NextBins ==
    \/ StartMonitoring
    \/ StopMonitoring
    \/ RefreshBins
    \/ Tick
    \/ SensorPollTick
    \/ BinPollTick
    \/ \E i \in 1..Len(polls) : SensorReports(i, FALSE)
    \/ \E i \in 1..Len(polls), data \in BinReports : PollBinsArrive(i, data)
    \/ \E i \in 1..Len(polls) : PollBinsFail(i)
    \/ \E data \in BinReports : BinsArrive(data)
    \/ BinsFail

SpecBins == InitWith(TRUE, BinsClock, BinsPresses, 0) /\ [][NextBins]_vars

\* C9: a fetch that finds bin 1 still Full appends no alert: the alert was appended
\* when the bin became Full.
C9_AlertOncePerTransition ==
    [][binCapacity.bin1.full /\ binCapacity'.bin1.full
           => obs'.alerts1 = obs.alerts1]_vars

\* C16: stopStream called while no session is active changes nothing: when
\* monitoring is stopped with no stream running, the log gains the entry of the
\* monitoring stop alone and the session flags, the detecting flag and the active
\* detections stay as they are.
C16_StopIsIdempotent ==
    [][StopMonitoring /\ ~isStreaming =>
           /\ detectionHistory' = <<"monitoring stopped">>
                  \o SubSeq(detectionHistory, 1, Min(Len(detectionHistory), HISTORY_KEEP))
           /\ UNCHANGED <<isStreaming, streamActive, streamStartAge, isDetecting,
                          activeDetections>>]_vars

\* --------------------------------------------------------------- teardown
\* Monitoring is started and stopped around a session in which a detection
\* actuates the controller; the sensor reads either way and the controller
\* answers, possibly a clock step late.
NextTeardown ==
    \/ StartMonitoring
    \/ StopMonitoring
    \/ StartStreamButton
    \/ Tick
    \/ SensorPollTick
    \/ BinPollTick
    \/ DetectionTick
    \/ CooldownTick
    \/ DurationTick
    \/ \E i \in 1..Len(timeouts) : AssignSource(i)
    \/ \E i \in 1..Len(timeouts) : ClearSource(i)
    \/ \E i \in 1..Len(timeouts) : PostTriggerStop(i)
    \/ \E i \in 1..Len(polls), obj \in BOOLEAN : SensorReports(i, obj)
    \/ \E i \in 1..Len(polls) : PollBinsArrive(i, NormalBins)
    \/ BinsArrive(NormalBins)
    \/ FrameLoad
    \/ \E i \in 1..Len(detects) : DelayEnds(i)
    \/ \E i \in 1..Len(detects) : InferenceHigh(i)
    \/ \E i \in 1..Len(detects) : ControlAnswers(i, TRUE)

SpecTeardown ==
    InitWith(FALSE, TeardownClock, TeardownPresses, TeardownPatience)
        /\ [][NextTeardown]_vars

\* C11: while monitoring is off no stream session is active, none of the five
\* intervals (sensor poll, bin poll, detection tick, cooldown countdown, stream
\* duration check) is running and no grace timer is pending.
C11_MonitoringOffAllQuiet ==
    ~sensorMonitoring =>
        /\ ~isStreaming
        /\ \A k \in {"sensor", "bins", "detection", "cooldown", "duration"} :
               intervals[k] = OFF
        /\ GraceTimers = {}

\* -------------------------------------------------------------- classifier
\* One prediction with a given class label is received: the overlay colour it is
\* drawn in, the category it is counted in and the command it would send.
Words ==
    {<<"t", "i", "s", "s", "u", "e">>,
     <<"p", "a", "p", "e", "r">>,
     <<"c", "u", "p">>,
     <<"c", "a", "n">>,
     <<"l", "i", "d">>,
     <<"p", "l", "a", "s", "t", "i", "c">>,
     <<"p", "a", "c", "k", "e", "t">>,
     <<"c", "i", "g", "a", "r", "e", "t", "t", "e">>,
     <<"t", "a", "n", "s", "a", "n">>,
     <<"o", "b", "j", "e", "c", "t", "s">>,
     <<"e", "g", "g">>,
     <<"s", "h", "e", "l", "l">>}

RECURSIVE Phrases(_)
\* The phrases of at most n words, joined by a blank or an underscore.
Phrases(n) ==
    IF n = 1 THEN Words
    ELSE Phrases(n - 1)
             \cup {p \o sep \o w : p \in Phrases(n - 1), sep \in {<<" ">>, <<"_">>},
                                    w \in Words}

\* A phrase as a model may spell it: in lower case, in upper case, capitalised, or
\* capitalised with a leading blank.
Spellings(p) ==
    {p, toUpperCase(p), toUpperCase(SubSeq(p, 1, 1)) \o SubSeq(p, 2, Len(p)),
     <<" ">> \o toUpperCase(SubSeq(p, 1, 1)) \o SubSeq(p, 2, Len(p))}

MysteryWrapperPacket ==
    <<"m", "y", "s", "t", "e", "r", "y", "_", "w", "r", "a", "p", "p", "e", "r", "_", "p", "a", "c", "k", "e", "t">>

UnlabeledObject ==
    <<"u", "n", "l", "a", "b", "e", "l", "e", "d", "_", "o", "b", "j", "e", "c", "t">>

\* The class labels classified: the keys of the table as they are written, the
\* phrases in their spellings, and two labels no table key resembles.
Labels ==
    {wasteClassification[k].key : k \in 1..Len(wasteClassification)}
        \cup UNION {Spellings(p) : p \in Phrases(MaxWords)}
        \cup {MysteryWrapperPacket, UnlabeledObject}

\* the prediction's class label goes through the three classifications
Classify ==
    /\ ~classified.done
    /\ classified.label # <<>>
    /\ classified' = [classified EXCEPT !.done = TRUE,
                                        !.color = overlayColor(classified.label),
                                        !.wasteType = statsType(classified.label),
                                        !.command = command(classified.label)]
    /\ UNCHANGED <<sensorMonitoring, isStreaming, streamActive, streamStartAge,
                   isDetecting, isInCooldown, cooldownRemaining, cameraIP,
                   detectionHistory, binCapacity, ultrasonicData, lastCommandSuccess,
                   activeDetections, wasteStats, detectionCooldownAge,
                   lastStreamStartAge, streamTimeoutRef, imageRef, intervals,
                   sensorClosure, timeouts, polls, detects, binFetches, controls,
                   diagnostics, request, frame, proxy, mqtt, limits, obs>>

InitClassifier ==
    /\ InitPage(Limits(FALSE, FALSE, TICK, 0, 0, 0))
    /\ classified \in {[Unclassified EXCEPT !.label = l] : l \in Labels}
    /\ frame = NoFrame

NextClassifier == Classify

SpecClassifier == InitClassifier /\ [][NextClassifier]_vars

\* The label is a key of the table as written / matches a key when case and
\* surrounding blanks are ignored.
IsKey(label) == lookup(label) # "undefined"

MatchesKey(label) ==
    \E k \in 1..Len(wasteClassification) :
        toLowerCase(wasteClassification[k].key) = toLowerCase(trim(label))

\* C13: for every label the category of the overlay colour, the category counted
\* in the statistics and the category sent as the command are the same.
C13_OneClassification ==
    classified.done =>
        /\ colorCategory(classified.color) = classified.command
        /\ classified.wasteType = classified.command

\* The category the table gives a label that matches one of its keys.
TableCategory(label) ==
    wasteClassification[
        CHOOSE k \in 1..Len(wasteClassification) :
            toLowerCase(wasteClassification[k].key) = toLowerCase(trim(label))].value

\* The category by keyword: plastic before recyclable before biodegradable.
KeywordCategory(label) ==
    LET has(w) == includes(toLowerCase(label), w)
    IN IF has(<<"p", "l", "a", "s", "t", "i", "c">>) \/ has(<<"p", "a", "c", "k", "e", "t">>)
          \/ has(<<"c", "i", "g", "a", "r", "e", "t", "t", "e">>)
       THEN "plastic"
       ELSE IF has(<<"p", "a", "p", "e", "r">>) \/ has(<<"c", "u", "p">>)
               \/ has(<<"c", "a", "n">>) \/ has(<<"l", "i", "d">>)
       THEN "recyclable"
       ELSE "biodegradable"

\* C14: a label in the table is given its table category, and a label not in the
\* table the category of its keywords, by the overlay, by the statistics and by
\* the command alike.
C14_ClassifierResults ==
    classified.done =>
        LET category == IF MatchesKey(classified.label)
                        THEN TableCategory(classified.label)
                        ELSE KeywordCategory(classified.label)
        IN /\ classified.command = category
           /\ classified.wasteType = category
           /\ colorCategory(classified.color) = category

\* ---------------------------------------------------------------- overlay
\* The detection overlay, on a clock of SHORT_DELAY steps: a session in which
\* frames arrive and inference answers, after any delay, with predictions below
\* the confidence threshold or with none; the controller is unreachable.
NextOverlay ==
    \/ StartMonitoring
    \/ StartStreamButton
    \/ StopStreamButton
    \/ Tick
    \/ SensorPollTick
    \/ BinPollTick
    \/ DetectionTick
    \/ DurationTick
    \/ JanitorTick
    \/ \E i \in 1..Len(timeouts) : AssignSource(i)
    \/ \E i \in 1..Len(timeouts) : ClearSource(i)
    \/ \E i \in 1..Len(polls) : SensorFails(i)
    \/ BinsFail
    \/ FrameLoad
    \/ \E i \in 1..Len(detects) : DelayEnds(i)
    \/ \E i \in 1..Len(detects) : InferenceLow(i)
    \/ \E i \in 1..Len(detects) : InferenceEmpty(i)

InitOverlay ==
    /\ InitPage(Limits(FALSE, TRUE, SHORT_DELAY, OverlayClock, OverlayPresses, 0))
    /\ classified = Unclassified
    /\ frame = NoFrame

SpecOverlay == InitOverlay /\ [][NextOverlay]_vars

\* The detections in q that have been shown for less than d.
Young(q, d) == {i \in 1..Len(q) : q[i] < d}

\* C15: no detection is in the active set for longer than detectionDisplayTime,
\* and while the session goes on no detection younger than that leaves the set.
C15_OverlayExpiry ==
    /\ [](\A i \in 1..Len(activeDetections) :
              activeDetections[i] <= detectionDisplayTime)
    /\ [][isStreaming /\ isStreaming' =>
              Len(activeDetections')
                  >= Cardinality(Young(activeDetections, detectionDisplayTime))]_vars

\* ----------------------------------------------------------- remote calls
\* One remote call at a time, through its requests: fetchESP32 (part_002), in
\* production or development, with or without a controllerIP in localStorage, and
\* the inference request of RoboflowAPI.detectViaRestAPI (part_001).  phase is
\* "first" or "fallback" while a request is awaited; requests lists where the
\* requests of the call went; timer says that the abort timer is pending.
Endpoints == {"sensor", "bins", "status", "control"}

\* the statuses of the responses that are not ok
Statuses == {404, 500}

\* new Error(`HTTP ${response.status}: ...`)
httpError(status) == "HTTP " \o ToString(status)

\* what a request that fails fails with: a response that is not ok, or no
\* connection
Failures == {httpError(status) : status \in Statuses} \cup {"network"}

\* fetchESP32 up to its await: the base URL, the abort timer, the request
fetchESP32(endpoint, production, stored, r) ==
    [r EXCEPT !.endpoint = endpoint, !.production = production, !.stored = stored,
              !.phase = "first",
              !.requests = <<IF production THEN "proxy" ELSE "direct">>,
              !.timer = TRUE, !.error = "none", !.calls = @ + 1]

\* fetchESP32: the response is ok
fetchResolved(r) == [r EXCEPT !.phase = "resolved", !.timer = FALSE]

\* A catch that tries the stored address again whatever the mode.
fetchCaughtAnyMode(error, r) ==
    LET cleared == [r EXCEPT !.timer = FALSE]
    IN IF error = "abort"
       THEN [cleared EXCEPT !.phase = "rejected", !.error = "timeout"]
       ELSE IF r.stored
       THEN [cleared EXCEPT !.phase = "fallback", !.requests = Append(@, "direct")]
       ELSE [cleared EXCEPT !.phase = "rejected", !.error = error]

\* fetchESP32's catch, for error "abort" (the abort timer fired), an HTTP error
\* (the response was not ok) or "network" (fetch rejected)
fetchCaught(error, r) ==
    LET cleared == [r EXCEPT !.timer = FALSE]
    IN IF error = "abort"
       THEN [cleared EXCEPT !.phase = "rejected", !.error = "timeout"]
       ELSE IF ~r.production /\ r.stored
       THEN [cleared EXCEPT !.phase = "fallback", !.requests = Append(@, "direct")]
       ELSE [cleared EXCEPT !.phase = "rejected", !.error = error]

\* fetchESP32's inner catch: the second request failed as well
fallbackCaught(error, r) == [r EXCEPT !.phase = "rejected", !.error = "both " \o error]

\* detectViaRestAPI up to its await of fetch(apiUrl, ...): no signal, no timer
detectViaRestAPI(r) ==
    [r EXCEPT !.endpoint = "inference", !.production = FALSE, !.stored = FALSE,
              !.phase = "first", !.requests = <<"roboflow">>,
              !.timer = FALSE, !.error = "none", !.calls = @ + 1]

\* The client takes a step: nothing of the page changes.
Client(r) ==
    /\ request' = r
    /\ UNCHANGED <<sensorMonitoring, isStreaming, streamActive, streamStartAge,
                   isDetecting, isInCooldown, cooldownRemaining, cameraIP,
                   detectionHistory, binCapacity, ultrasonicData, lastCommandSuccess,
                   activeDetections, wasteStats, detectionCooldownAge,
                   lastStreamStartAge, streamTimeoutRef, imageRef, intervals,
                   sensorClosure, timeouts, polls, detects, binFetches, controls,
                   diagnostics, classified, frame, proxy, mqtt, limits, obs>>

Settled == request.phase \in {"idle", "resolved", "rejected"}

CallController(endpoint, production, stored) ==
    /\ Settled /\ request.calls < MaxCalls
    /\ Client(fetchESP32(endpoint, production, stored, request))

CallInference ==
    /\ Settled /\ request.calls < MaxCalls
    /\ Client(detectViaRestAPI(request))

\* the peer answers the first request with an ok response
RequestSucceeds ==
    /\ request.phase = "first"
    /\ Client(fetchResolved(request))

\* the first request fails: a response that is not ok, or no connection
RequestFails(error) ==
    /\ request.phase = "first"
    /\ Client(IF request.endpoint = "inference"
              THEN [request EXCEPT !.phase = "rejected", !.error = error]
              ELSE fetchCaught(error, request))

\* setTimeout(() => controller.abort(), 10000) fires: the fetch rejects
AbortFires ==
    /\ request.phase = "first" /\ request.timer
    /\ Client(fetchCaught("abort", request))

FallbackSucceeds ==
    /\ request.phase = "fallback"
    /\ Client(fetchResolved(request))

FallbackFails(error) ==
    /\ request.phase = "fallback"
    /\ Client(fallbackCaught(error, request))

NextClient ==
    \/ \E e \in Endpoints, production, stored \in BOOLEAN :
           CallController(e, production, stored)
    \/ CallInference
    \/ RequestSucceeds
    \/ \E error \in Failures : RequestFails(error)
    \/ AbortFires
    \/ FallbackSucceeds
    \/ \E error \in Failures : FallbackFails(error)

SpecClient == InitWith(FALSE, 0, 0, 0) /\ [][NextClient]_vars

\* C17: in development a call makes at most two requests: the first goes directly
\* to the device, the second, made once the first has failed, goes through the
\* proxy path; a call fails only after both, and then with the combined error.
C17_DevelopmentFallback ==
    request.endpoint \in Endpoints /\ ~request.production =>
        /\ Len(request.requests) <= 2
        /\ request.requests[1] = "direct"
        /\ Len(request.requests) = 2 => request.requests[2] = "proxy"
        /\ request.phase = "rejected" =>
               /\ Len(request.requests) = 2
               /\ request.error \in {"both " \o error : error \in Failures}

\* C18: every request of a remote call, the inference request and a fallback
\* request included, is awaited with its abort timer pending, so that a peer that
\* never answers ends the call with a timeout.
C18_EveryRequestBounded ==
    request.phase \in {"first", "fallback"} => request.timer

\* a call to the controller made in production mode
InProduction == request.endpoint \in Endpoints /\ request.production

\* C30: in production a call makes one request, through the proxy, and never a
\* second; a response that is not ok ends the call with the HTTP error of its
\* status, and the abort timer ends it with the timeout error; neither adds a
\* request.
C30_ProductionOnce ==
    /\ [](InProduction => request.requests = <<"proxy">> /\ request.phase # "fallback")
    /\ [][\A status \in Statuses :
              InProduction /\ RequestFails(httpError(status)) =>
                  /\ request'.phase = "rejected"
                  /\ request'.error = httpError(status)
                  /\ request'.requests = request.requests]_vars
    /\ [][InProduction /\ AbortFires =>
              /\ request'.phase = "rejected"
              /\ request'.error = "timeout"
              /\ request'.requests = request.requests]_vars

\* A production call with an address stored has failed on a 500 response after
\* its one request.
C30_Witness ==
    /\ InProduction /\ request.stored
    /\ request.phase = "rejected"
    /\ request.error = httpError(500)
    /\ request.requests = <<"proxy">>

\* ------------------------------------------------- one inference answer
\* What the page does with the predictions of one inference answer: the service
\* wrapper filters them (part_001), detectFromCurrentImage shows and counts them
\* and picks what to send.  A prediction is its class label and its confidence.
Confidences == {19, CONFIDENCE_THRESHOLD, 59, confidenceThreshold, 90}

FrameLabels ==
    {<<"P", "l", "a", "s", "t", "i", "c">>, <<"R", "i", "c", "e">>}

Predictions == [class : FrameLabels, confidence : Confidences]

RECURSIVE Frames(_)
Frames(n) ==
    IF n = 0 THEN {<<>>}
    ELSE LET shorter == Frames(n - 1)
         IN shorter \cup {Append(q, p) : q \in {r \in shorter : Len(r) = n - 1},
                                          p \in Predictions}

\* RoboflowAPI.filterDetections
filterDetections(predictions) ==
    SelectSeq(predictions, LAMBDA pred : pred.confidence >= CONFIDENCE_THRESHOLD)

\* the predictions of predictions that updateWasteStats counts as wasteType
Counted(predictions, wasteType) ==
    Cardinality({i \in 1..Len(predictions) : statsType(predictions[i].class) = wasteType})

\* updateWasteStats: the counters, then the event log
updateWasteStats(predictions, s) ==
    logDetections(Len(predictions),
        [s EXCEPT !.wasteStats =
             [biodegradable |-> @.biodegradable + Counted(predictions, "biodegradable"),
              nonBiodegradable |-> @.nonBiodegradable + Counted(predictions, "plastic"),
              recyclable |-> @.recyclable + Counted(predictions, "recyclable")]])

\* A choice of the detection to send that takes the first one.
firstDetection(predictions) == predictions[1]

RECURSIVE reduce(_, _, _)
reduce(predictions, i, prev) ==
    IF i > Len(predictions) THEN prev
    ELSE reduce(predictions, i + 1,
                IF prev.confidence > predictions[i].confidence
                THEN prev ELSE predictions[i])

\* predictions.reduce((prev, current) => prev.confidence > current.confidence
\*                                       ? prev : current)
topDetection(predictions) == reduce(predictions, 2, predictions[1])

\* the command sendDetectionToController sends for the predictions it is given,
\* the gate being open ("none": no command)
commandFor(predictions) ==
    IF Len(predictions) = 0 THEN "none"
    ELSE LET top == topDetection(predictions)
         IN IF top.confidence >= confidenceThreshold THEN command(top.class)
            ELSE "none"

\* detectFromCurrentImage from the answer of roboflowAPI.detectFromImage to the
\* call of sendDetectionToController
handlePredictions(s) ==
    LET predictions == s.frame.predictions
        highConfidencePredictions ==
            SelectSeq(predictions, LAMBDA p : p.confidence >= confidenceThreshold)
        handled == [s EXCEPT !.frame.phase = "handled"]
    IN IF Len(predictions) > 0
       THEN [updateWasteStats(predictions, addDetections(Len(predictions), handled))
                EXCEPT !.frame.sent =
                    IF Len(highConfidencePredictions) > 0
                    THEN commandFor(highConfidencePredictions)
                    ELSE "none"]
       ELSE handled

\* the service wrapper returns the predictions it accepts
FilterFrame ==
    /\ frame.phase = "raw"
    /\ Task([Cur EXCEPT !.frame.phase = "accepted",
                        !.frame.predictions = filterDetections(frame.raw)], FALSE)

\* the page handles them
HandleFrame ==
    /\ frame.phase = "accepted"
    /\ Task(handlePredictions(Cur), TRUE)

\* The page before an answer, and the predictions the service found.
InitFrame ==
    /\ InitPage(Limits(TRUE, TRUE, TICK, 0, 0, 0))
    /\ classified = Unclassified
    /\ frame \in {[NoFrame EXCEPT !.phase = "raw", !.raw = q] : q \in Frames(MaxPredictions)}

NextFrame ==
    \/ FilterFrame
    \/ HandleFrame

SpecFrame == InitFrame /\ [][NextFrame]_vars

\* the largest confidence among predictions
Highest(predictions) ==
    CHOOSE c \in {predictions[i].confidence : i \in 1..Len(predictions)} :
        \A i \in 1..Len(predictions) : predictions[i].confidence <= c

\* C22: predictions below CONFIDENCE_THRESHOLD do not reach the page; a command is
\* sent only if an accepted prediction has at least confidenceThreshold, and it is
\* then the command of an accepted prediction whose confidence is the highest.
C22_ActuationThreshold ==
    /\ frame.phase \in {"accepted", "handled"} =>
           frame.predictions =
               SelectSeq(frame.raw, LAMBDA p : p.confidence >= CONFIDENCE_THRESHOLD)
    /\ frame.phase = "handled" /\ frame.sent # "none" =>
           /\ Highest(frame.predictions) >= confidenceThreshold
           /\ \E i \in 1..Len(frame.predictions) :
                  /\ frame.predictions[i].confidence = Highest(frame.predictions)
                  /\ frame.sent = command(frame.predictions[i].class)

\* Two predictions qualify, the second with the higher confidence and another
\* category, and its command is the one sent.
C22_Witness ==
    /\ frame.phase = "handled"
    /\ Len(frame.raw) = 3 /\ Len(frame.predictions) = 2
    /\ frame.predictions[1].confidence = confidenceThreshold
    /\ frame.predictions[2].confidence > confidenceThreshold
    /\ command(frame.predictions[1].class) # command(frame.predictions[2].class)
    /\ frame.sent = command(frame.predictions[2].class)

\* C26: once the page has handled an answer of N accepted detections, the overlay
\* holds N detections, the counters have risen by N in all and the event log has
\* N lines more (all three start empty under SpecFrame).
C26_OnePerDetection ==
    frame.phase = "handled" =>
        /\ Len(activeDetections) = Len(frame.predictions)
        /\ wasteStats.biodegradable + wasteStats.nonBiodegradable
               + wasteStats.recyclable = Len(frame.predictions)
        /\ Len(detectionHistory) = Len(frame.predictions)

\* ---------------------------------------------------------- camera address
\* The operator edits the camera address while the proximity monitor runs; the
\* controller answers the polls, the camera delivers nothing.
NextCamera ==
    \/ StartMonitoring
    \/ ChangeCameraIP
    \/ StartStreamButton
    \/ Tick
    \/ SensorPollTick
    \/ BinPollTick
    \/ DetectionTick
    \/ DurationTick
    \/ \E i \in 1..Len(timeouts) : AssignSource(i)
    \/ \E i \in 1..Len(polls), obj \in BOOLEAN : SensorReports(i, obj)
    \/ \E i \in 1..Len(polls) : PollBinsArrive(i, NormalBins)
    \/ BinsArrive(NormalBins)

InitCamera ==
    /\ InitPage(Limits(FALSE, FALSE, TICK, CameraClock, CameraPresses, 1))
    /\ classified = Unclassified
    /\ frame = NoFrame

SpecCamera == InitCamera /\ [][NextCamera]_vars

\* C23: while no camera address is configured no session becomes active: the
\* flags and the start time of an inactive session stay as they are.
C23_NoCameraNoSession ==
    [][~cameraIP /\ ~isStreaming =>
           UNCHANGED <<isStreaming, streamActive, streamStartAge>>]_vars

\* ------------------------------------------------------ cooldown countdown
\* The actuation gate while the operator may also stop monitoring.
NextCooldown ==
    \/ NextGate
    \/ StopMonitoring

InitCooldown ==
    /\ InitPage(Limits(FALSE, FALSE, TICK, CooldownClock, CooldownPresses, 0))
    /\ classified = Unclassified
    /\ frame = NoFrame

SpecCooldown == InitCooldown /\ [][NextCooldown]_vars

\* C24: a cooldown ends: while it is active its countdown runs, every tick of the
\* countdown lowers the remaining time shown, and when DETECTION_COOLDOWN has
\* elapsed since the trigger and the callbacks of that instant have run the gate
\* is ready (isInCooldown false, remaining 0), the session stopped or not.
C24_CooldownEnds ==
    /\ [][isInCooldown' => intervals'.cooldown # OFF]_vars
    /\ [][CooldownTick => cooldownRemaining' < cooldownRemaining]_vars
    /\ [][Between' /\ detectionCooldownAge' >= DETECTION_COOLDOWN =>
              ~isInCooldown' /\ cooldownRemaining' = 0]_vars

\* A cooldown has ended DETECTION_COOLDOWN after its trigger, monitoring and the
\* session having been stopped meanwhile.
C24_Witness ==
    /\ obs.autoCommands = 1 /\ obs.autoCommandAge = DETECTION_COOLDOWN
    /\ ~sensorMonitoring /\ ~isStreaming
    /\ Between
    /\ ~isInCooldown /\ cooldownRemaining = 0 /\ intervals.cooldown = OFF

\* C29: a step that starts or stops a stream session leaves the cooldown as it
\* is: the flag, the time since the trigger, the remaining time shown and the
\* countdown; and no second automatic command goes out within DETECTION_COOLDOWN
\* of the first, whatever sessions stop and start meanwhile.
C29_CooldownIndependent ==
    /\ [][isStreaming' # isStreaming =>
              /\ UNCHANGED <<isInCooldown, detectionCooldownAge, cooldownRemaining>>
              /\ intervals'.cooldown = intervals.cooldown]_vars
    /\ [](obs.commandGap >= DETECTION_COOLDOWN)

\* A session was stopped and another started since the trigger, and the cooldown
\* is still running.
C29_Witness ==
    /\ obs.autoCommands = 1
    /\ isInCooldown /\ cooldownRemaining > 0 /\ intervals.cooldown # OFF
    /\ isStreaming /\ streamStartAge < detectionCooldownAge
    /\ detectionCooldownAge < DETECTION_COOLDOWN

\* ------------------------------------------------------------- event log
\* The detection loop and the bin reports with the event log kept, for a few
\* seconds of one session in which an answer holds up to LogPredictions
\* accepted detections.
NextLog ==
    \/ NextGate
    \/ \E data \in BinReports : BinsArrive(data)

InitLog ==
    /\ InitPage([Limits(TRUE, FALSE, TICK, LogClock, LogPresses, 0)
                    EXCEPT !.predictions = LogPredictions])
    /\ classified = Unclassified
    /\ frame = NoFrame

SpecLog == InitLog /\ [][NextLog]_vars

\* C25: the event log never holds more than ten entries, and a step that
\* changes it puts its new entries (at most NEW_LINES of them) in front: what
\* follows them is the front of the log as it was, in the same order.
C25_LogCapped ==
    [][/\ Len(detectionHistory') <= HISTORY_KEEP + 1
       /\ detectionHistory' # detectionHistory =>
              \E k \in 1..NEW_LINES :
                  /\ k <= Len(detectionHistory')
                  /\ Len(detectionHistory') - k <= Len(detectionHistory)
                  /\ SubSeq(detectionHistory', k + 1, Len(detectionHistory'))
                         = SubSeq(detectionHistory, 1, Len(detectionHistory') - k)
      ]_vars

\* the log is full, the detections of the last answer in front, and its oldest
\* entry has been dropped
C25_Witness ==
    /\ Len(detectionHistory) = HISTORY_KEEP + 1
    /\ detectionHistory[1] = "detected"
    /\ detectionHistory[HISTORY_KEEP + 1] = "stream starting"

\* ------------------------------------------------------------- reconnect
\* Sessions started and stopped from the panel while the camera delivers frames
\* or fails to; the controller does not answer.
NextReconnect ==
    \/ StartMonitoring
    \/ StartStreamButton
    \/ StopStreamButton
    \/ Tick
    \/ SensorPollTick
    \/ BinPollTick
    \/ DetectionTick
    \/ DurationTick
    \/ \E i \in 1..Len(timeouts) : AssignSource(i)
    \/ \E i \in 1..Len(timeouts) : ClearSource(i)
    \/ \E i \in 1..Len(timeouts) : ReconnectTimer(i)
    \/ \E i \in 1..Len(timeouts) : ReassignSource(i)
    \/ \E i \in 1..Len(polls) : SensorFails(i)
    \/ BinsFail
    \/ FrameLoad
    \/ ImageError
    \/ \E i \in 1..Len(detects) : DelayEnds(i)
    \/ \E i \in 1..Len(detects) : InferenceEmpty(i)

InitReconnect ==
    /\ InitPage(Limits(FALSE, FALSE, TICK, ReconnectClock, ReconnectPresses, 0))
    /\ classified = Unclassified
    /\ frame = NoFrame

SpecReconnect == InitReconnect /\ [][NextReconnect]_vars

\* the reconnect attempts pending in timers q
Reconnects(q) == Cardinality({i \in 1..Len(q) : q[i].kind = "reconnect"})

\* C27: a frame load error schedules one reconnect attempt, RECONNECT_DELAY
\* later; an attempt whose session has been stopped since assigns nothing when
\* it fires: it leaves the image source alone and schedules no assignment.
C27_ReconnectOnce ==
    /\ [][ImageError =>
             /\ Reconnects(timeouts') = Reconnects(timeouts) + 1
             /\ timeouts'[Len(timeouts')].kind = "reconnect"
             /\ timeouts'[Len(timeouts')].left = RECONNECT_DELAY]_vars
    /\ [][\A i \in 1..Len(timeouts) :
             /\ timeouts[i].stale
             /\ ReconnectTimer(i) \/ ReassignSource(i)
             => /\ imageRef'.src = imageRef.src
                /\ \A j \in 1..Len(timeouts') : timeouts'[j].kind # "reassign"]_vars

\* ------------------------------------------------------------ timeout stop
\* The session that nothing stops, as under SpecWatchdog, with the event log kept.
InitTimeout ==
    /\ InitPage(Limits(TRUE, FALSE, TICK, TimeoutClock, TimeoutPresses, TimeoutPatience))
    /\ classified = Unclassified
    /\ frame = NoFrame

SpecTimeout == InitTimeout /\ [][NextWatchdog]_vars

\* C28: the stop of a session that has reached STREAM_TIMEOUT is recorded by the
\* timeout entry alone: the log is the timeout entry followed by the log as it
\* was before the stop.
C28_TimeoutStopDistinct ==
    [][DurationTick /\ isStreaming /\ ~isStreaming' =>
           /\ Len(detectionHistory') <= Len(detectionHistory) + 1
           /\ detectionHistory' = <<"stream timeout">>
                  \o SubSeq(detectionHistory, 1, Len(detectionHistory') - 1)]_vars

\* ------------------------------------------------- answers after the stop
\* C31: while no stream session is active the active-detection set is empty.
C31_StoppedOverlayEmpty == ~isStreaming => activeDetections = <<>>

\* C32: an automatic command is sent, and a cooldown starts, only while a stream
\* session is active.
C32_CommandsWhileStreaming ==
    /\ [][\A i \in 1..Len(detects) : GatePassed(i) => isStreaming]_vars
    /\ [][~isInCooldown /\ isInCooldown' => isStreaming]_vars

\* C33: the stop scheduled after a trigger, when the session it was scheduled in
\* has been stopped since, leaves the session that is active when it fires
\* running.
C33_StopOwnSessionOnly ==
    [][\A i \in 1..Len(timeouts) :
           PostTriggerStop(i) /\ timeouts[i].stale /\ isStreaming =>
               isStreaming' /\ streamActive']_vars

\* ------------------------------------------------------------ stream leak
\* C34: while no session is active the video element has no stream URL and no
\* error handler attached, and the deferred assignment of startStream, firing
\* after its session was stopped, attaches nothing.
C34_NoStreamLeak ==
    /\ [](~isStreaming => imageRef.src # "stream" /\ ~imageRef.onerror)
    /\ [][\A i \in 1..Len(timeouts) :
              AssignSource(i) /\ ~isStreaming => imageRef' = NoImage]_vars

\* Stop Stream was pressed within the start delay of Start Stream: the deferred
\* assignment is still to fire, and the element is gone.
C34_Witness ==
    /\ sensorMonitoring /\ ~isStreaming
    /\ \E i \in 1..Len(timeouts) : timeouts[i].kind = "assign" /\ timeouts[i].stale
    /\ imageRef = NoImage

\* --------------------------------------------------------- manual control
\* The detection loop of one session with the Manual Controller buttons.
NextManual ==
    \/ NextGate
    \/ ManualControl
    \/ \E ok \in BOOLEAN : ManualControlAnswers(ok)

InitManual ==
    /\ InitPage(Limits(FALSE, FALSE, TICK, ManualClock, ManualPresses, 0))
    /\ classified = Unclassified
    /\ frame = NoFrame

SpecManual == InitManual /\ [][NextManual]_vars

\* C35: a Manual Controller button sends one control request, cooldown or not,
\* and neither the button nor the answer, ok or not, changes the cooldown; a
\* failure is kept as the status of the last command.
C35_ManualControlApart ==
    /\ [][ManualControl =>
              /\ controls' = controls + 1
              /\ UNCHANGED <<isInCooldown, detectionCooldownAge, cooldownRemaining>>]_vars
    /\ [][\A ok \in BOOLEAN :
              ManualControlAnswers(ok) =>
                  /\ controls' = controls - 1
                  /\ lastCommandSuccess' = IF ok THEN "ok" ELSE "failed"
                  /\ intervals'.cooldown = intervals.cooldown
                  /\ UNCHANGED <<isInCooldown, detectionCooldownAge,
                                 cooldownRemaining>>]_vars

\* A manual command has failed during the cooldown of an automatic command that
\* had succeeded, and the cooldown goes on.
C35_Witness ==
    /\ isInCooldown /\ cooldownRemaining > 0 /\ intervals.cooldown # OFF
    /\ obs.autoCommands = 1 /\ ~obs.autoFailed
    /\ Commands(detects) = {}
    /\ controls = 0 /\ lastCommandSuccess = "failed"

\* ---------------------------------------------------- sensor start time
\* C36: the time of the last sensor start is taken only in a step in which a
\* session starts, and the Start Stream button leaves it alone.
C36_StartTimeOnlyOnStart ==
    /\ [][lastStreamStartAge' = 0 /\ lastStreamStartAge # 0 =>
              isStreaming' /\ streamStartAge' = 0]_vars
    /\ [][StartStreamButton => UNCHANGED lastStreamStartAge]_vars

\* ----------------------------------------------------------- reverse proxy
\* fetchWithTimeoutAndRetry (part_006), from the call by handleProxyRequest to
\* its return or throw.  phase is "attempt" while a fetch is awaited, "wait" in
\* the delay before a retry; errors lists what the attempts failed with.
ProxyStatuses == {200, 404, 502}

\* the errors the catch retries on: error.name or error.code
Retryable == {"AbortError", "TypeError", "ECONNREFUSED", "ECONNRESET", "ETIMEDOUT"}

\* what fetch rejects with, the abort of the timer apart
ProxyErrors == (Retryable \ {"AbortError"}) \cup {"other"}

\* fetchWithTimeoutAndRetry(url, options, retries) up to its await of fetch
fetchWithTimeoutAndRetry(retries, p) ==
    [p EXCEPT !.phase = "attempt", !.retries = retries, !.attempts = @ + 1,
              !.timer = TRUE]

\* the fetch resolves: clearTimeout, return response
proxyReturned(status, p) ==
    [p EXCEPT !.phase = "returned", !.timer = FALSE, !.response = status]

\* A catch that retries whatever is left of the retries.
proxyCaughtRetrying(error, p) ==
    LET caught == [p EXCEPT !.timer = FALSE, !.errors = Append(@, error)]
    IN IF error \in Retryable
       THEN [caught EXCEPT !.phase = "wait"]
       ELSE [caught EXCEPT !.phase = "thrown", !.thrown = error]

\* the catch: clearTimeout, then the wait before a retry, or throw error
proxyCaught(error, p) ==
    LET caught == [p EXCEPT !.timer = FALSE, !.errors = Append(@, error)]
    IN IF p.retries > 0 /\ error \in Retryable
       THEN [caught EXCEPT !.phase = "wait"]
       ELSE [caught EXCEPT !.phase = "thrown", !.thrown = error]

\* handleProxyRequest calls fetchWithTimeoutAndRetry(targetUrl, {...})
ProxyCall ==
    /\ proxy.phase \in {"idle", "returned", "thrown"}
    /\ proxy.calls < MaxProxyCalls
    /\ Install([Cur EXCEPT !.proxy =
           fetchWithTimeoutAndRetry(MAX_RETRIES, [NoProxy EXCEPT !.calls = proxy.calls + 1])])

\* the controller answers, with whatever status
ProxyResponds(status) ==
    /\ proxy.phase = "attempt"
    /\ Install([Cur EXCEPT !.proxy = proxyReturned(status, proxy)])

\* fetch rejects
ProxyFails(error) ==
    /\ proxy.phase = "attempt"
    /\ Install([Cur EXCEPT !.proxy = proxyCaught(error, proxy)])

\* setTimeout(() => controller.abort(), PROXY_TIMEOUT) fires
ProxyAborts ==
    /\ proxy.phase = "attempt" /\ proxy.timer
    /\ Install([Cur EXCEPT !.proxy = proxyCaught("AbortError", proxy)])

\* the wait of 1000 ms is over: fetchWithTimeoutAndRetry(url, options, retries - 1)
ProxyRetries ==
    /\ proxy.phase = "wait"
    /\ Install([Cur EXCEPT !.proxy = fetchWithTimeoutAndRetry(proxy.retries - 1, proxy)])

NextProxy ==
    \/ ProxyCall
    \/ \E status \in ProxyStatuses : ProxyResponds(status)
    \/ \E error \in ProxyErrors : ProxyFails(error)
    \/ ProxyAborts
    \/ ProxyRetries

InitProxy ==
    /\ InitPage(Limits(FALSE, FALSE, TICK, 0, 0, 0))
    /\ classified = Unclassified
    /\ frame = NoFrame

SpecProxy == InitProxy /\ [][NextProxy]_vars

\* C37: a request makes at most MAX_RETRIES + 1 attempts; it goes on to another
\* attempt only after a timeout or a network error; the first response obtained
\* is returned, whatever its status; and what is thrown is the error of the last
\* attempt, thrown when the retries are used up or the error is of another kind.
C37_ProxyRetriesBounded ==
    /\ [](proxy.attempts <= MAX_RETRIES + 1)
    /\ [](proxy.phase = "wait" => proxy.errors[Len(proxy.errors)] \in Retryable)
    /\ [](proxy.phase # "idle" =>
              Len(proxy.errors) = proxy.attempts - (IF proxy.phase = "attempt" THEN 1 ELSE
                                                   IF proxy.phase = "returned" THEN 1 ELSE 0))
    /\ [][\A status \in ProxyStatuses :
              ProxyResponds(status) =>
                  proxy'.phase = "returned" /\ proxy'.response = status]_vars
    /\ [](proxy.phase = "thrown" =>
              /\ proxy.thrown = proxy.errors[Len(proxy.errors)]
              /\ proxy.attempts = MAX_RETRIES + 1 \/ proxy.thrown \notin Retryable)

\* Three attempts have failed, the first on the timeout, and the error of the
\* third is thrown.
C37_Witness ==
    /\ proxy.phase = "thrown"
    /\ proxy.attempts = MAX_RETRIES + 1
    /\ proxy.errors[1] = "AbortError"
    /\ proxy.thrown = "ECONNRESET"

\* ------------------------------------------------------------ MQTT client
\* The MQTTClient object (part_002, lines 3-106).  client says that
\* this.client is set, ended that end() was called on it; the maps are kept
\* as the sets of their keys.
Topics == {"biosort/bins", "biosort/sensor"}

\* connect(brokerUrl, options) up to the first event: mqtt.connect(...)
connect(m) == [m EXCEPT !.client = TRUE, !.ended = FALSE, !.connects = @ + 1]

\* client.on('connect')
onConnect(m) == [m EXCEPT !.isConnected = TRUE]

\* client.on('error') and client.on('close')
onClose(m) == [m EXCEPT !.isConnected = FALSE]

\* subscribe(topic, callback): the request goes out, the map is set on its
\* acknowledgement
subscribe(topic, m) ==
    IF ~m.client \/ ~m.isConnected THEN m
    ELSE [m EXCEPT !.acks = Append(@, topic)]

\* the callback given to client.subscribe: (err) => { ... subscriptions.set }
subscribed(ok, m) ==
    LET topic == Head(m.acks)
    IN [m EXCEPT !.acks = Tail(@),
                 !.subscriptions = IF ok THEN @ \cup {topic} ELSE @]

\* publish(topic, message)
publish(topic, m) ==
    IF ~m.client \/ ~m.isConnected THEN m
    ELSE [m EXCEPT !.sent = Append(@, topic)]

\* onMessage(callback): a new id
onMessage(m) == [m EXCEPT !.ids = @ + 1, !.messageCallbacks = @ \cup {m.ids + 1}]

\* offMessage(id)
offMessage(id, m) == [m EXCEPT !.messageCallbacks = @ \ {id}]

\* disconnect(): client.end() waits for the requests that are out, so their
\* acknowledgements may still come
disconnect(m) ==
    IF m.client
    THEN [m EXCEPT !.ended = TRUE, !.isConnected = FALSE,
                   !.subscriptions = {}, !.messageCallbacks = {}]
    ELSE m

\* a caller connects a client that has none, or whose client was ended
Connect ==
    /\ ~mqtt.client \/ mqtt.ended
    /\ mqtt.connects < MaxConnects
    /\ Install([Cur EXCEPT !.mqtt = connect(mqtt)])

\* the broker accepts the connection, at first or on a reconnection
Connected ==
    /\ mqtt.client /\ ~mqtt.ended /\ ~mqtt.isConnected
    /\ Install([Cur EXCEPT !.mqtt = onConnect(mqtt)])

\* the connection closes or fails; the library reconnects by itself
Closed ==
    /\ mqtt.client /\ ~mqtt.ended /\ mqtt.isConnected
    /\ Install([Cur EXCEPT !.mqtt = onClose(mqtt)])

Subscribe(topic) ==
    /\ Len(mqtt.acks) < MaxAcks
    /\ Install([Cur EXCEPT !.mqtt = subscribe(topic, mqtt)])

\* the broker acknowledges or refuses the oldest request that is out
SubAck(ok) ==
    /\ mqtt.acks # <<>>
    /\ Install([Cur EXCEPT !.mqtt = subscribed(ok, mqtt)])

Publish(topic) ==
    /\ Len(mqtt.sent) < MaxPublishes
    /\ Install([Cur EXCEPT !.mqtt = publish(topic, mqtt)])

OnMessage ==
    /\ mqtt.ids < MaxCallbacks
    /\ Install([Cur EXCEPT !.mqtt = onMessage(mqtt)])

OffMessage(id) ==
    /\ id \in mqtt.messageCallbacks
    /\ Install([Cur EXCEPT !.mqtt = offMessage(id, mqtt)])

\* a caller disconnects; without a client the call does nothing
Disconnect ==
    /\ mqtt.client
    /\ Install([Cur EXCEPT !.mqtt = disconnect(mqtt)])

NextMqtt ==
    \/ Connect
    \/ Connected
    \/ Closed
    \/ \E topic \in Topics : Subscribe(topic)
    \/ \E ok \in BOOLEAN : SubAck(ok)
    \/ \E topic \in Topics : Publish(topic)
    \/ OnMessage
    \/ \E id \in 1..MaxCallbacks : OffMessage(id)
    \/ Disconnect

InitMqtt ==
    /\ InitPage(Limits(FALSE, FALSE, TICK, 0, 0, 0))
    /\ classified = Unclassified
    /\ frame = NoFrame

SpecMqtt == InitMqtt /\ [][NextMqtt]_vars

\* C38: subscribe and publish on a client that is not connected leave the
\* client as it is; disconnect() leaves it not connected with both maps empty;
\* and from disconnect() to the next connect the client stays not connected,
\* the subscription map stays empty and the message-callback map gains no
\* entry but by a call of onMessage, whatever acknowledgement arrives.
C38_DisconnectedClientEmpty ==
    /\ [][\A topic \in Topics :
              (Subscribe(topic) \/ Publish(topic)) /\ ~(mqtt.client /\ mqtt.isConnected) =>
                  mqtt' = mqtt]_vars
    /\ [](mqtt.ended => ~mqtt.isConnected /\ mqtt.subscriptions = {})
    /\ [][mqtt.ended /\ mqtt'.ended /\ ~OnMessage =>
              mqtt'.messageCallbacks \subseteq mqtt.messageCallbacks]_vars

====
